---- MODULE Spec2Model ----
(***************************************************************************)
(* Model of the Runware Go SDK transport: the WebSocket client of          *)
(* internal/ws/client.go (connection lifecycle, handler registry, message  *)
(* router, reconnect supervisor) and the request layer built on it         *)
(* (sendRequest, createResponseHandler, waitForResponse).                  *)
(***************************************************************************)
EXTENDS Integers, Sequences, FiniteSets, TLC

\* ------------------------------------------------------------------ bounds
\* Sockets the client may dial over a run (generation g of background loops
\* is spawned by the g-th successful Connect and owns socket g).
MaxConnects == 2
\* sendRequest calls over a run.
MaxReq == 2
\* Largest numberResults (expected-count) a request asks for.
MaxExpected == 2
\* Inbound frames the service sends over a run.
MaxFrames == 3
\* Frames buffered in messageChan before readLoop blocks on the send.
MaxQueue == 2

\* Consecutive failed reconnect attempts that are counted; the count
\* saturates there, where the delay has long reached its cap.
MaxFails == 5
MaxTimeout == 4
MaxBatch == 3
MaxProcs == 3
BigBatch == 9
MaxAttempts == 3

\* DefaultWSConfig, in seconds: ReconnectDelay and MaxReconnectDelay.
ReconnectDelay == 5
MaxReconnectDelay == 60

\* processBatch: the floor of maxParallel.
MinParallel == 8
\* The zero value of Resp, and a nil error.
ZeroResp == 0
NoBatchErr == [kind |-> "nil", errs |-> <<>>]

\* writeMu unlocked.
Free == [by |-> "-", who |-> 0]

\* ctx.Deadline() reporting ok = false.
NoDeadline == -1

Gens == 1..MaxConnects
Reqs == 1..MaxReq
\* Correlation identifiers (taskUUID) in play; 0 stands for no handler.
Ids == {1, 2}
\* Registry keys: the identifiers and 0, the empty taskUUID.
Keys == Ids \cup {0}
\* Task kinds on inbound items: one the router decodes, one it does not know.
TaskTypes == {"imageInference", "bogus"}

VARIABLES
    connected,      \* Client.connected
    conn,           \* Client.conn: 0 is nil, s > 0 is socket s
    sock,           \* sock[s]: "none", "open", "broken" (peer/network), "closed" (conn.Close)
    nConnects,      \* sockets dialled so far
    stopped,        \* stopChan is closed
    reconnectChan,  \* items buffered in reconnectChan (capacity 1)
    messageChan,    \* frames buffered in messageChan
    handlers,       \* Client.handlers: id -> request whose callback is registered (0: none)
    autoReconnect,  \* WSConfig.EnableAutoReconnect
    readPc,         \* readLoop of generation g
    procPc,         \* processMessages of generation g
    procCall,       \* the callback invocation that loop g is about to make
    pingPc,         \* pingLoop of generation g
    recPc,          \* reconnectLoop of generation g
    userPc,         \* the application thread calling Connect / Disconnect
    lastOp,         \* the application thread's last completed call and its result
    reqPc,          \* sendRequest call r
    reqId,          \* its taskUUID
    reqN,           \* its expectedCount
    hCount,         \* receivedCount of the callback built by createResponseHandler
    respLen,        \* values buffered in respChan
    respClosed,     \* respChan is closed
    errChan,        \* the error buffered in errChan (NoErr: empty)
    wCount,         \* receivedCount of waitForMultipleResponses
    outcome,        \* what sendRequest returned to its caller
    cbErr,          \* per request: invocations of its callback with an error
    panicked,       \* the process died of a runtime panic
    nFrames,        \* frames the service has sent
    atDisc,         \* requests that were in flight when Disconnect was called
    delay,          \* the local delay of reconnectLoop g, in seconds
    fails,          \* failed reconnect attempts since the last successful one
    firstWrite,     \* per socket: the first frame a write was attempted for
    wPc,            \* waitForResponse under a clock: "idle", "waiting", "done"
    now,            \* time elapsed since waitForResponse was entered
    requestTimeout, \* c.requestTimeout
    deadline,       \* time until ctx's deadline at entry, NoDeadline without one
    timeout,        \* the duration timeoutTimer was started with
    wResult,        \* "none", "timeout", "ctxErr", "resp"
    bPc,            \* processBatch: "idle", "running", "done"
    bN,             \* len(requests)
    failing,        \* the items (0-based) for which handler returns an error
    procs,          \* runtime.GOMAXPROCS(0)
    launched,       \* iterations of the launching loop completed
    running,        \* items whose goroutine holds a sem slot (handler in progress)
    results,        \* the results channel: item indices in completion order
    responses,      \* the returned slice
    batchErr,       \* the returned error
    pPc,            \* PollVideoResult: "idle", "top", "fetch", "sleepCtx", "sleep", "done"
    attempt,        \* the loop variable
    maxAttempts,    \* the attempt budget
    polls,          \* GetResponse calls issued
    ctxDone,        \* the caller's context is cancelled
    history,        \* what each completed GetResponse returned
    pResult,        \* what PollVideoResult returned
    writeMu,        \* the holder of writeMu, or Free
    writing,        \* the socket writes in progress: [by, who, sock]
    connectCtxDone, \* the ctx the application passed to Connect is done
    tPc,            \* a typed request method: idle, waiting, return, done
    tMethod,        \* which typed method was called
    tExpected,      \* its expectedCount
    tChan,          \* respChan: the results the callback has sent
    tDelivered,     \* the callback's receivedCount
    tFirst,         \* waitForResponse's firstResp
    tOut,           \* what the typed method did: response, an error, panic
    aPc,            \* PollAudioResult: idle, top, fetch, sleep, sleepCtx, done
    aAttempt,       \* its loop variable attempt
    aMax,           \* its maxAttempts
    aCtxDone,       \* its ctx is done
    aLast,          \* the item that answered its last status fetch
    aResult         \* what it returned

connVars == <<connected, conn, sock, nConnects, stopped, reconnectChan, autoReconnect>>
loopVars == <<readPc, procPc, procCall, pingPc, recPc>>
userVars == <<userPc, lastOp, atDisc>>
regVars == <<handlers, messageChan, nFrames>>
reqVars == <<reqPc, reqId, reqN, hCount, respLen, respClosed, errChan, wCount,
             outcome, cbErr, panicked>>
backoffVars == <<delay, fails>>
waitVars == <<wPc, now, requestTimeout, deadline, timeout, wResult>>
wmVars == <<writeMu, writing>>
clientVars == <<connVars, loopVars, userVars, regVars, reqVars, backoffVars, firstWrite, wmVars,
               connectCtxDone>>
batchVars == <<bPc, bN, failing, procs, launched, running, results, responses, batchErr>>
pollVars == <<pPc, attempt, maxAttempts, polls, ctxDone, history, pResult>>
typedVars == <<tPc, tMethod, tExpected, tChan, tDelivered, tFirst, tOut>>
audioVars == <<aPc, aAttempt, aMax, aCtxDone, aLast, aResult>>
apiVars == <<typedVars, audioVars>>
vars == <<clientVars, waitVars, batchVars, pollVars, apiVars>>

\* Error values: none, or what a callback is handed.  kind "plain" is an
\* untyped error carrying only a message text; kind "APIError" is the typed
\* error of errors.go, carrying the service's code and correlation identifier.
NoErr == [kind |-> "none", code |-> "-", taskUUID |-> 0]
NoCall == [h |-> 0, id |-> 0, data |-> "-", err |-> NoErr]
NoOp == [op |-> "none", err |-> FALSE, noop |-> FALSE]

\* The taskType a reply item carries: the nine kinds the router knows
\* (models/shared_types.go) and one it does not.
WireTypes ==
    {"imageInference", "imageUpload", "imageUpscale", "imageBackgroundRemoval",
     "promptEnhance", "imageCaption", "videoInference", "audioInference",
     "getResponse", "unknown"}

\* The status a reply item carries: absent, the three TaskStatus values,
\* and one the SDK has no constant for.
Statuses == {"", "processing", "success", "error", "queued"}

\* A reply item as far as decoding looks at it.  decodes: json.Unmarshal
\* into the struct of the item's kind succeeds (for getResponse: into
\* VideoInferenceResponse); decodesAudio: into AudioInferenceResponse;
\* video / audio: the item carries a video / an audio payload field.
Items ==
    [taskType : WireTypes, status : Statuses, decodes : BOOLEAN,
     decodesAudio : BOOLEAN, video : BOOLEAN, audio : BOOLEAN]

\* A decoded result: the Go type behind the interface{} and its Status.
NilResult == [type |-> "nil", status |-> ""]
NoItem ==
    [taskType |-> "unknown", status |-> "", decodes |-> FALSE,
     decodesAudio |-> FALSE, video |-> FALSE, audio |-> FALSE]

\* NewClient: nothing connected, open stop channel, empty registry.
Init ==
    /\ connected = FALSE
    /\ conn = 0
    /\ sock = [s \in Gens |-> "none"]
    /\ nConnects = 0
    /\ stopped = FALSE
    /\ reconnectChan = 0
    /\ messageChan = <<>>
    /\ handlers = [i \in Keys |-> 0]
    /\ autoReconnect \in BOOLEAN
    /\ readPc = [g \in Gens |-> "none"]
    /\ procPc = [g \in Gens |-> "none"]
    /\ procCall = [g \in Gens |-> NoCall]
    /\ pingPc = [g \in Gens |-> "none"]
    /\ recPc = [g \in Gens |-> "none"]
    /\ userPc = "idle"
    /\ lastOp = NoOp
    /\ reqPc = [r \in Reqs |-> "idle"]
    /\ reqId = [r \in Reqs |-> 0]
    /\ reqN = [r \in Reqs |-> 0]
    /\ hCount = [r \in Reqs |-> 0]
    /\ respLen = [r \in Reqs |-> 0]
    /\ respClosed = [r \in Reqs |-> FALSE]
    /\ errChan = [r \in Reqs |-> NoErr]
    /\ wCount = [r \in Reqs |-> 0]
    /\ outcome = [r \in Reqs |-> [kind |-> "none", received |-> 0]]
    /\ cbErr = [r \in Reqs |-> 0]
    /\ panicked = FALSE
    /\ nFrames = 0
    /\ atDisc = {}
    /\ delay = [g \in Gens |-> ReconnectDelay]
    /\ fails = 0
    /\ firstWrite = [s \in Gens |-> "none"]
    /\ wPc = "idle"
    /\ now = 0
    /\ requestTimeout = 0
    /\ deadline = NoDeadline
    /\ timeout = 0
    /\ wResult = "none"
    /\ bPc = "idle"
    /\ bN = 0
    /\ failing = {}
    /\ procs = 1
    /\ launched = 0
    /\ running = {}
    /\ results = <<>>
    /\ responses = <<>>
    /\ batchErr = NoBatchErr
    /\ pPc = "idle"
    /\ attempt = 0
    /\ maxAttempts = 0
    /\ polls = 0
    /\ ctxDone = FALSE
    /\ history = <<>>
    /\ pResult = "none"
    /\ writeMu = Free
    /\ writing = {}
    /\ connectCtxDone = FALSE
    /\ tPc = "idle"
    /\ tMethod = "none"
    /\ tExpected = 0
    /\ tChan = <<>>
    /\ tDelivered = 0
    /\ tFirst = NilResult
    /\ tOut = "none"
    /\ aPc = "idle"
    /\ aAttempt = 0
    /\ aMax = 0
    /\ aCtxDone = FALSE
    /\ aLast = NoItem
    /\ aResult = "none"

\* ------------------------------------------------- connection lifecycle

\* triggerReconnect: nothing once the stop signal is raised; otherwise mark
\* the state disconnected if mu.TryLock() succeeds (lockOk) and leave one
\* item in reconnectChan (non-blocking send on a channel of capacity 1).
triggerReconnect(c, lockOk) ==
    IF stopped
    THEN [connected |-> c, reconnectChan |-> reconnectChan]
    ELSE [connected |-> IF lockOk THEN FALSE ELSE c, reconnectChan |-> 1]

\* The loops of a client whose Connect would make a fresh stop channel:
\* the read loop reads whatever happened before.
SpawnLoopsFreshStop(s) ==
    [readPc |-> [readPc EXCEPT ![s] = "reading"],
     procPc |-> [procPc EXCEPT ![s] = "idle"],
     pingPc |-> [pingPc EXCEPT ![s] = "run"],
     recPc  |-> [recPc EXCEPT ![s] = IF autoReconnect THEN "idle" ELSE "none"]]

\* The goroutines Connect starts for socket s.  Each loop's first select
\* sees the stop channel, so a readLoop started after the stop signal
\* returns before it reads.
SpawnLoops(s) ==
    [readPc |-> [readPc EXCEPT ![s] = IF stopped THEN "exit" ELSE "reading"],
     procPc |-> [procPc EXCEPT ![s] = "idle"],
     pingPc |-> [pingPc EXCEPT ![s] = "run"],
     recPc  |-> [recPc EXCEPT ![s] = IF autoReconnect THEN "idle" ELSE "none"]]

NoSpawn ==
    [readPc |-> readPc, procPc |-> procPc, pingPc |-> pingPc, recPc |-> recPc]

ConnectOutcomes == {"dialFail", "authFail", "ok"}

\* A write of a frame of the given kind is attempted on socket s.
MarkWrite(fw, s, kind) == IF fw[s] = "none" THEN [fw EXCEPT ![s] = kind] ELSE fw

\* Connect that starts the loops without writing the authentication frame.
ConnectNoAuth(out) ==
    IF connected \/ out = "dialFail"
    THEN [connected |-> connected, conn |-> conn, sock |-> sock,
          nConnects |-> nConnects, loops |-> NoSpawn, err |-> TRUE,
          firstWrite |-> firstWrite]
    ELSE LET s == nConnects + 1 IN
         IF out = "authFail"
         THEN [connected |-> FALSE, conn |-> s,
               sock |-> [sock EXCEPT ![s] = "closed"],
               nConnects |-> s, loops |-> NoSpawn, err |-> TRUE,
               firstWrite |-> MarkWrite(firstWrite, s, "authFailed")]
         ELSE [connected |-> TRUE, conn |-> s,
               sock |-> [sock EXCEPT ![s] = "open"],
               nConnects |-> s, loops |-> SpawnLoops(s), err |-> FALSE,
               firstWrite |-> firstWrite]

\* Connect that does not reset connected after a failed authentication.
ConnectKeepsConnected(out) ==
    IF connected \/ out = "dialFail"
    THEN [connected |-> connected, conn |-> conn, sock |-> sock,
          nConnects |-> nConnects, loops |-> NoSpawn, err |-> TRUE,
          firstWrite |-> firstWrite]
    ELSE LET s == nConnects + 1 IN
         IF out = "authFail"
         THEN [connected |-> TRUE, conn |-> s,
               sock |-> [sock EXCEPT ![s] = "closed"],
               nConnects |-> s, loops |-> NoSpawn, err |-> TRUE,
               firstWrite |-> MarkWrite(firstWrite, s, "authFailed")]
         ELSE [connected |-> TRUE, conn |-> s,
               sock |-> [sock EXCEPT ![s] = "open"],
               nConnects |-> s, loops |-> SpawnLoops(s), err |-> FALSE,
               firstWrite |-> MarkWrite(firstWrite, s, "auth")]

\* Connect, run under mu: "already connected" if connected; a failed dial
\* changes nothing; otherwise c.conn is the new socket and connected is
\* true while the authentication frame is written; a failed write closes
\* the socket and resets connected (c.conn keeps the closed socket).
Connect(out) ==
    IF connected \/ out = "dialFail"
    THEN [connected |-> connected, conn |-> conn, sock |-> sock,
          nConnects |-> nConnects, loops |-> NoSpawn, err |-> TRUE,
          firstWrite |-> firstWrite]
    ELSE LET s == nConnects + 1 IN
         IF out = "authFail"
         THEN [connected |-> FALSE, conn |-> s,
               sock |-> [sock EXCEPT ![s] = "closed"],
               nConnects |-> s, loops |-> NoSpawn, err |-> TRUE,
               firstWrite |-> MarkWrite(firstWrite, s, "authFailed")]
         ELSE [connected |-> TRUE, conn |-> s,
               sock |-> [sock EXCEPT ![s] = "open"],
               nConnects |-> s, loops |-> SpawnLoops(s), err |-> FALSE,
               firstWrite |-> MarkWrite(firstWrite, s, "auth")]

\* A dial needs a socket the model still has.
CanDial(out) == (~connected /\ out # "dialFail") => nConnects < MaxConnects

\* The application calls Connect.
UserConnect(out) ==
    /\ userPc = "idle"
    /\ CanDial(out)
    /\ LET c == Connect(out) IN
       /\ connected' = c.connected
       /\ conn' = c.conn
       /\ sock' = c.sock
       /\ nConnects' = c.nConnects
       /\ readPc' = c.loops.readPc
       /\ procPc' = c.loops.procPc
       /\ pingPc' = c.loops.pingPc
       /\ recPc' = c.loops.recPc
       /\ lastOp' = [op |-> "connect", err |-> c.err, noop |-> FALSE]
       /\ firstWrite' = c.firstWrite
    /\ UNCHANGED <<stopped, reconnectChan, autoReconnect, procCall, userPc, atDisc,
                   regVars, reqVars>>
    /\ UNCHANGED backoffVars
    /\ UNCHANGED <<waitVars, batchVars, pollVars, wmVars, connectCtxDone, apiVars>>

\* Requests sent and not yet completed: the caller waits and the callback
\* has neither received every expected result nor an error.
InFlight ==
    {r \in Reqs : reqPc[r] = "waiting" /\ hCount[r] < reqN[r] /\ errChan[r] = NoErr}

\* Disconnect, first critical section: return nil at once if not connected;
\* otherwise mark disconnected and close stopChan (once).
DisconnectBegin ==
    /\ userPc = "idle"
    /\ atDisc' = atDisc \cup InFlight
    /\ IF ~connected
       THEN /\ lastOp' = [op |-> "disconnect", err |-> FALSE, noop |-> TRUE]
            /\ UNCHANGED <<connected, stopped, userPc>>
       ELSE /\ connected' = FALSE
            /\ stopped' = TRUE
            /\ userPc' = "discWait"
            /\ UNCHANGED lastOp
    /\ UNCHANGED <<conn, sock, nConnects, reconnectChan, autoReconnect, loopVars,
                   regVars, reqVars>>
    /\ UNCHANGED backoffVars
    /\ UNCHANGED <<waitVars, batchVars, pollVars, wmVars, connectCtxDone, apiVars>>
    /\ UNCHANGED firstWrite

\* Disconnect that waits for the loops without a grace period.
DisconnectFinishWaitsForLoops ==
    /\ userPc = "discWait"
    /\ \A g \in Gens : /\ readPc[g] \in {"none", "exit"}
                       /\ procPc[g] \in {"none", "exit"}
                       /\ pingPc[g] \in {"none", "exit"}
                       /\ recPc[g] \in {"none", "exit"}
    /\ userPc' = "idle"
    /\ IF conn # 0
       THEN /\ lastOp' = [op |-> "disconnect", err |-> sock[conn] # "open", noop |-> FALSE]
            /\ sock' = [sock EXCEPT ![conn] = "closed"]
            /\ conn' = 0
            /\ firstWrite' = MarkWrite(firstWrite, conn, "close")
       ELSE /\ lastOp' = [op |-> "disconnect", err |-> FALSE, noop |-> FALSE]
            /\ UNCHANGED <<sock, conn, firstWrite>>
    /\ UNCHANGED <<connected, nConnects, stopped, reconnectChan, autoReconnect,
                   loopVars, atDisc, regVars, reqVars>>
    /\ UNCHANGED backoffVars
    /\ UNCHANGED <<waitVars, batchVars, pollVars, wmVars, connectCtxDone, apiVars>>

\* Disconnect, after wg.Wait() or the 5 s grace period, whichever is first:
\* write the close frame, close the socket, clear c.conn; the write's error
\* is returned.
DisconnectFinish ==
    /\ userPc = "discWait"
    /\ userPc' = "idle"
    /\ IF conn # 0
       THEN /\ lastOp' = [op |-> "disconnect", err |-> sock[conn] # "open", noop |-> FALSE]
            /\ sock' = [sock EXCEPT ![conn] = "closed"]
            /\ conn' = 0
            /\ firstWrite' = MarkWrite(firstWrite, conn, "close")
       ELSE /\ lastOp' = [op |-> "disconnect", err |-> FALSE, noop |-> FALSE]
            /\ UNCHANGED <<sock, conn, firstWrite>>
    /\ UNCHANGED <<connected, nConnects, stopped, reconnectChan, autoReconnect,
                   loopVars, atDisc, regVars, reqVars>>
    /\ UNCHANGED backoffVars
    /\ UNCHANGED <<waitVars, batchVars, pollVars, wmVars, connectCtxDone, apiVars>>

\* IsConnected: the lock-protected read of connected.
IsConnected == connected

\* The network or the peer ends socket s.
NetworkFail(s) ==
    /\ sock[s] = "open"
    /\ sock' = [sock EXCEPT ![s] = "broken"]
    /\ UNCHANGED <<connected, conn, nConnects, stopped, reconnectChan, autoReconnect,
                   loopVars, userVars, regVars, reqVars>>
    /\ UNCHANGED backoffVars
    /\ UNCHANGED <<waitVars, batchVars, pollVars, wmVars, connectCtxDone, apiVars>>
    /\ UNCHANGED firstWrite

\* ------------------------------------------------------ background loops

\* Frames the service may send: a success envelope {"data":[item]}, the
\* service error shape {"taskUUID","error","errorId"}, the error shape with
\* an ill-typed "data" member, and bytes that are no JSON object.
ErrorCodes == {"invalidParameter"}

Frames ==
    [shape : {"data"}, id : Ids, tt : TaskTypes, code : {"-"}]
        \cup [shape : {"error", "errorBadData"}, id : Ids, tt : {"-"}, code : ErrorCodes]
        \cup [shape : {"garbage"}, id : {0}, tt : {"-"}, code : {"-"}]

\* json.Unmarshal(message, &struct{Data []json.RawMessage}): succeeds on
\* every JSON object whose "data" member, if any, is a list; members the
\* struct does not name are ignored.
ParsesAsEnvelope(f) == f.shape \in {"data", "error"}

\* The Data items of a parsed envelope.
EnvelopeItems(f) == IF f.shape = "data" THEN <<[id |-> f.id, tt |-> f.tt]>> ELSE <<>>

\* json.Unmarshal(message, &errResp): succeeds on a JSON object with string
\* members; errResp has no "data" member.
ParsesAsErrResp(f) == f.shape \in {"error", "errorBadData"}

\* readLoop: ReadMessage returned a frame; it goes to messageChan and the
\* loop's next select returns if the stop signal is raised.  The service
\* puts a taskUUID on a frame only if a request written to it carried it.
ReadFrame(g, f) ==
    /\ readPc[g] = "reading"
    /\ sock[g] = "open"
    /\ f.id # 0 =>
          \E r \in Reqs :
              /\ reqId[r] = f.id
              /\ \/ reqPc[r] = "waiting"
                 \/ reqPc[r] = "done" /\ outcome[r].kind \notin {"notConnected", "sendFailed"}
    /\ nFrames < MaxFrames
    /\ Len(messageChan) < MaxQueue
    /\ messageChan' = Append(messageChan, f)
    /\ nFrames' = nFrames + 1
    /\ readPc' = [readPc EXCEPT ![g] = IF stopped THEN "exit" ELSE "reading"]
    /\ UNCHANGED <<connVars, procPc, procCall, pingPc, recPc, userVars, handlers, reqVars>>
    /\ UNCHANGED backoffVars
    /\ UNCHANGED <<waitVars, batchVars, pollVars, wmVars, connectCtxDone, apiVars>>
    /\ UNCHANGED firstWrite

\* readLoop: ReadMessage failed; triggerReconnect, return.
ReadError(g, lockOk) ==
    /\ readPc[g] = "reading"
    /\ sock[g] \in {"broken", "closed"}
    /\ LET t == triggerReconnect(connected, lockOk) IN
       /\ connected' = t.connected
       /\ reconnectChan' = t.reconnectChan
    /\ readPc' = [readPc EXCEPT ![g] = "exit"]
    /\ UNCHANGED <<conn, sock, nConnects, stopped, autoReconnect, procPc, procCall,
                   pingPc, recPc, userVars, regVars, reqVars>>
    /\ UNCHANGED backoffVars
    /\ UNCHANGED <<waitVars, batchVars, pollVars, wmVars, connectCtxDone, apiVars>>
    /\ UNCHANGED firstWrite

\* pingLoop: a tick whose ping write fails; triggerReconnect, return.
PingFail(g, lockOk) ==
    /\ pingPc[g] = "run"
    /\ conn # 0
    /\ sock[conn] # "open"
    /\ LET t == triggerReconnect(connected, lockOk) IN
       /\ connected' = t.connected
       /\ reconnectChan' = t.reconnectChan
    /\ pingPc' = [pingPc EXCEPT ![g] = "exit"]
    /\ firstWrite' = MarkWrite(firstWrite, conn, "ping")
    /\ UNCHANGED <<conn, sock, nConnects, stopped, autoReconnect, readPc, procPc,
                   procCall, recPc, userVars, regVars, reqVars>>
    /\ UNCHANGED backoffVars
    /\ UNCHANGED <<waitVars, batchVars, pollVars, wmVars, connectCtxDone, apiVars>>

\* pingLoop: a tick whose ping is written.
PingTick(g) ==
    /\ pingPc[g] = "run"
    /\ conn # 0
    /\ sock[conn] = "open"
    /\ firstWrite' = MarkWrite(firstWrite, conn, "ping")
    /\ UNCHANGED <<connVars, loopVars, userVars, regVars, reqVars, backoffVars>>
    /\ UNCHANGED <<waitVars, batchVars, pollVars, wmVars, connectCtxDone, apiVars>>

\* pingLoop: returns on the stop signal, or on a tick that finds c.conn nil.
PingExit(g) ==
    /\ pingPc[g] = "run"
    /\ stopped \/ conn = 0
    /\ pingPc' = [pingPc EXCEPT ![g] = "exit"]
    /\ UNCHANGED <<connVars, readPc, procPc, procCall, recPc, userVars, regVars, reqVars>>
    /\ UNCHANGED backoffVars
    /\ UNCHANGED <<waitVars, batchVars, pollVars, wmVars, connectCtxDone, apiVars>>
    /\ UNCHANGED firstWrite

\* reconnectLoop: the select takes the item of reconnectChan (it may do so
\* with the stop signal raised: both cases are ready) and sleeps.
RecTake(g) ==
    /\ recPc[g] = "idle"
    /\ reconnectChan = 1
    /\ reconnectChan' = 0
    /\ recPc' = [recPc EXCEPT ![g] = "sleep"]
    /\ UNCHANGED <<connected, conn, sock, nConnects, stopped, autoReconnect, readPc,
                   procPc, procCall, pingPc, userVars, regVars, reqVars>>
    /\ UNCHANGED backoffVars
    /\ UNCHANGED <<waitVars, batchVars, pollVars, wmVars, connectCtxDone, apiVars>>
    /\ UNCHANGED firstWrite

\* reconnectLoop: the select takes the stop signal.
RecExit(g) ==
    /\ recPc[g] = "idle"
    /\ stopped
    /\ recPc' = [recPc EXCEPT ![g] = "exit"]
    /\ UNCHANGED <<connVars, readPc, procPc, procCall, pingPc, userVars, regVars, reqVars>>
    /\ UNCHANGED backoffVars
    /\ UNCHANGED <<waitVars, batchVars, pollVars, wmVars, connectCtxDone, apiVars>>
    /\ UNCHANGED firstWrite

\* reconnectLoop after time.Sleep(delay): under mu, continue if connected,
\* otherwise close and clear a stale c.conn.
RecWake(g) ==
    /\ recPc[g] = "sleep"
    /\ IF connected
       THEN /\ recPc' = [recPc EXCEPT ![g] = "idle"]
            /\ UNCHANGED <<conn, sock>>
       ELSE /\ recPc' = [recPc EXCEPT ![g] = "connect"]
            /\ conn' = 0
            /\ sock' = IF conn # 0 THEN [sock EXCEPT ![conn] = "closed"] ELSE sock
    /\ UNCHANGED <<connected, nConnects, stopped, reconnectChan, autoReconnect, readPc,
                   procPc, procCall, pingPc, userVars, regVars, reqVars>>
    /\ UNCHANGED backoffVars
    /\ UNCHANGED <<waitVars, batchVars, pollVars, wmVars, connectCtxDone, apiVars>>
    /\ UNCHANGED firstWrite

Min(a, b) == IF a < b THEN a ELSE b

\* dialer.DialContext(ctx, ...) in a Connect made by the reconnectLoop,
\* which passes on the ctx of the Connect that started it: with that ctx
\* done the dial fails at once, whatever the network would answer.
DialOutcome(out) == IF connectCtxDone THEN "dialFail" ELSE out

\* The ctx the application passed to Connect is cancelled or expires after
\* that Connect has returned.
ConnectCtxCancel ==
    /\ nConnects > 0
    /\ ~connectCtxDone
    /\ connectCtxDone' = TRUE
    /\ UNCHANGED <<connVars, loopVars, userVars, regVars, reqVars, backoffVars, firstWrite, wmVars>>
    /\ UNCHANGED <<waitVars, batchVars, pollVars, apiVars>>

\* reconnectLoop after a failed Connect: delay *= 2, capped at
\* MaxReconnectDelay.
NextDelay(d) == IF d * 2 > MaxReconnectDelay THEN MaxReconnectDelay ELSE d * 2

\* reconnectLoop: c.Connect(ctx); on an error the loop's delay is doubled
\* and triggerReconnect re-arms; on success the delay is reset.
RecConnect(g, out, lockOk) ==
    /\ recPc[g] = "connect"
    /\ CanDial(DialOutcome(out))
    /\ LET c == Connect(DialOutcome(out))
           t == IF c.err THEN triggerReconnect(c.connected, lockOk)
                ELSE [connected |-> c.connected, reconnectChan |-> reconnectChan]
       IN
       /\ connected' = t.connected
       /\ reconnectChan' = t.reconnectChan
       /\ conn' = c.conn
       /\ sock' = c.sock
       /\ nConnects' = c.nConnects
       /\ readPc' = c.loops.readPc
       /\ procPc' = c.loops.procPc
       /\ pingPc' = c.loops.pingPc
       /\ recPc' = [c.loops.recPc EXCEPT ![g] = "idle"]
       /\ delay' = [delay EXCEPT ![g] = IF c.err THEN NextDelay(@) ELSE ReconnectDelay]
       /\ fails' = IF c.err THEN Min(fails + 1, MaxFails) ELSE 0
       /\ firstWrite' = c.firstWrite
    /\ UNCHANGED <<stopped, autoReconnect, procCall, userVars, regVars, reqVars>>
    /\ UNCHANGED <<waitVars, batchVars, pollVars, wmVars, connectCtxDone, apiVars>>

\* ------------------------------------------------------- message router

\* parseResponseByType: the typed payload, or nil for an unknown kind.
parseResponseByType(tt) == IF tt = "imageInference" THEN "payload" ELSE "nil"

\* removeHandler.
removeHandler(reg, id) == [reg EXCEPT ![id] = 0]

\* A router that looks the item up under another identifier than its own.
processResponseItemOtherKey(item) ==
    LET k == CHOOSE i \in Ids : i # item.id IN
    IF handlers[k] = 0
    THEN NoCall
    ELSE [h |-> handlers[k], id |-> item.id, data |-> parseResponseByType(item.tt),
          err |-> NoErr]

\* processResponseItem up to the callback: look the item's taskUUID up in
\* the registry; no entry, no call.
processResponseItem(item) ==
    IF handlers[item.id] = 0
    THEN NoCall
    ELSE [h |-> handlers[item.id], id |-> item.id,
          data |-> parseResponseByType(item.tt), err |-> NoErr]

\* handleErrorResponse up to the callback: the error handed over is
\* fmt.Errorf("api error: %s", errResp.Error).
handleErrorResponse(f) ==
    IF ParsesAsErrResp(f) /\ f.id # 0 /\ handlers[f.id] # 0
    THEN [h |-> handlers[f.id], id |-> f.id, data |-> "nil",
          err |-> [kind |-> "plain", code |-> "-", taskUUID |-> 0]]
    ELSE NoCall

\* handleMessage: the error path is taken only when the frame does not parse
\* as an envelope.
handleMessage(f) ==
    IF ParsesAsEnvelope(f)
    THEN IF EnvelopeItems(f) = <<>> THEN NoCall
         ELSE processResponseItem(EnvelopeItems(f)[1])
    ELSE handleErrorResponse(f)

\* processMessages: take a frame from messageChan and run handleMessage up
\* to the handler lookup.
ProcTake(g) ==
    /\ procPc[g] = "idle"
    /\ messageChan # <<>>
    /\ LET call == handleMessage(Head(messageChan)) IN
       /\ procCall' = [procCall EXCEPT ![g] = call]
       /\ procPc' = [procPc EXCEPT ![g] = IF call.h # 0 THEN "invoke" ELSE "idle"]
    /\ messageChan' = Tail(messageChan)
    /\ UNCHANGED <<connVars, readPc, pingPc, recPc, userVars, handlers, nFrames, reqVars>>
    /\ UNCHANGED backoffVars
    /\ UNCHANGED <<waitVars, batchVars, pollVars, wmVars, connectCtxDone, apiVars>>
    /\ UNCHANGED firstWrite

\* A callback that closes respChan one result early.
createResponseHandlerCloseEarly(r, err) ==
    IF err # NoErr
    THEN [hCount |-> hCount[r], respLen |-> respLen[r], respClosed |-> respClosed[r],
          errChan |-> IF errChan[r] = NoErr THEN err ELSE errChan[r],
          panic |-> FALSE, handlers |-> handlers]
    ELSE IF respClosed[r]
    THEN [hCount |-> hCount[r] + 1, respLen |-> respLen[r], respClosed |-> TRUE,
          errChan |-> errChan[r], panic |-> TRUE, handlers |-> handlers]
    ELSE LET done == hCount[r] + 1 >= reqN[r] - 1 IN
         [hCount |-> hCount[r] + 1, respLen |-> respLen[r] + 1, respClosed |-> done,
          errChan |-> errChan[r], panic |-> FALSE,
          handlers |-> IF done THEN removeHandler(handlers, reqId[r]) ELSE handlers]

\* The callback of createResponseHandler, applied to request r's state: an
\* error goes to errChan unless it is full; a result is counted, sent to
\* respChan (a panic if the channel is closed) and, once receivedCount
\* reaches expectedCount, respChan is closed and onDone removes the
\* registry entry of the request's taskUUID.
createResponseHandler(r, err) ==
    IF err # NoErr
    THEN [hCount |-> hCount[r], respLen |-> respLen[r], respClosed |-> respClosed[r],
          errChan |-> IF errChan[r] = NoErr THEN err ELSE errChan[r],
          panic |-> FALSE, handlers |-> handlers]
    ELSE IF respClosed[r]
    THEN [hCount |-> hCount[r] + 1, respLen |-> respLen[r], respClosed |-> TRUE,
          errChan |-> errChan[r], panic |-> TRUE, handlers |-> handlers]
    ELSE LET done == hCount[r] + 1 >= reqN[r] IN
         [hCount |-> hCount[r] + 1, respLen |-> respLen[r] + 1, respClosed |-> done,
          errChan |-> errChan[r], panic |-> FALSE,
          handlers |-> IF done THEN removeHandler(handlers, reqId[r]) ELSE handlers]

\* processMessages: invoke the callback found by the lookup; on the error
\* path handleErrorResponse then removes the entry.
ProcInvoke(g) ==
    /\ procPc[g] = "invoke"
    /\ LET c == procCall[g]
           r == c.h
           e == createResponseHandler(r, c.err)
       IN
       /\ e.respLen <= reqN[r]
       /\ hCount' = [hCount EXCEPT ![r] = e.hCount]
       /\ respLen' = [respLen EXCEPT ![r] = e.respLen]
       /\ respClosed' = [respClosed EXCEPT ![r] = e.respClosed]
       /\ errChan' = [errChan EXCEPT ![r] = e.errChan]
       /\ panicked' = e.panic
       /\ cbErr' = [cbErr EXCEPT ![r] = @ + (IF c.err # NoErr THEN 1 ELSE 0)]
       /\ handlers' = IF c.err # NoErr /\ ~e.panic
                      THEN removeHandler(e.handlers, c.id) ELSE e.handlers
    /\ procPc' = [procPc EXCEPT ![g] = "idle"]
    /\ procCall' = [procCall EXCEPT ![g] = NoCall]
    /\ UNCHANGED <<connVars, readPc, pingPc, recPc, userVars, messageChan, nFrames,
                   reqPc, reqId, reqN, wCount, outcome>>
    /\ UNCHANGED backoffVars
    /\ UNCHANGED <<waitVars, batchVars, pollVars, wmVars, connectCtxDone, apiVars>>
    /\ UNCHANGED firstWrite

\* processMessages: the select takes the stop signal.
ProcExit(g) ==
    /\ procPc[g] = "idle"
    /\ stopped
    /\ procPc' = [procPc EXCEPT ![g] = "exit"]
    /\ UNCHANGED <<connVars, readPc, procCall, pingPc, recPc, userVars, regVars, reqVars>>
    /\ UNCHANGED backoffVars
    /\ UNCHANGED <<waitVars, batchVars, pollVars, wmVars, connectCtxDone, apiVars>>
    /\ UNCHANGED firstWrite

\* -------------------------------------------------------- request layer

Result(kind, received) == [kind |-> kind, received |-> received]

\* Requests start in slot order and request r draws its taskUUID from the
\* first r identifiers (the slots and the identifiers are interchangeable).
RequestInputs(r) == {in \in [id : Keys, n : 1..MaxExpected] : in.id <= r}

\* Send without the taskUUID check.
SendRegisterUnchecked(r, in) ==
    /\ reqPc[r] = "idle"
    /\ \A q \in Reqs : q < r => reqPc[q] # "idle"
    /\ in \in RequestInputs(r)
    /\ reqId' = [reqId EXCEPT ![r] = in.id]
    /\ reqN' = [reqN EXCEPT ![r] = in.n]
    /\ IF ~IsConnected
       THEN /\ reqPc' = [reqPc EXCEPT ![r] = "done"]
            /\ outcome' = [outcome EXCEPT ![r] = Result("notConnected", 0)]
            /\ UNCHANGED handlers
       ELSE /\ reqPc' = [reqPc EXCEPT ![r] = "registered"]
            /\ handlers' = [handlers EXCEPT ![in.id] = r]
            /\ UNCHANGED outcome
    /\ UNCHANGED <<connVars, loopVars, userVars, messageChan, nFrames, hCount, respLen,
                   respClosed, errChan, wCount, cbErr, panicked>>
    /\ UNCHANGED backoffVars
    /\ UNCHANGED <<waitVars, batchVars, pollVars, wmVars, connectCtxDone, apiVars>>
    /\ UNCHANGED firstWrite

\* Send that goes on to the write without storing the handler.
SendRegisterNoHandler(r, in) ==
    /\ reqPc[r] = "idle"
    /\ \A q \in Reqs : q < r => reqPc[q] # "idle"
    /\ in \in RequestInputs(r)
    /\ reqId' = [reqId EXCEPT ![r] = in.id]
    /\ reqN' = [reqN EXCEPT ![r] = in.n]
    /\ IF ~IsConnected
       THEN /\ reqPc' = [reqPc EXCEPT ![r] = "done"]
            /\ outcome' = [outcome EXCEPT ![r] = Result("notConnected", 0)]
       ELSE IF in.id = 0
       THEN /\ reqPc' = [reqPc EXCEPT ![r] = "done"]
            /\ outcome' = [outcome EXCEPT ![r] = Result("missingTaskUUID", 0)]
       ELSE /\ reqPc' = [reqPc EXCEPT ![r] = "registered"]
            /\ UNCHANGED outcome
    /\ UNCHANGED handlers
    /\ UNCHANGED <<connVars, loopVars, userVars, messageChan, nFrames, hCount, respLen,
                   respClosed, errChan, wCount, cbErr, panicked>>
    /\ UNCHANGED backoffVars
    /\ UNCHANGED <<waitVars, batchVars, pollVars, wmVars, connectCtxDone, apiVars>>
    /\ UNCHANGED firstWrite

\* sendRequest and Send up to the registration: ErrNotConnected /
\* "not connected" unless IsConnected; otherwise the callback built by
\* createResponseHandler is stored under the request's taskUUID.
SendRegister(r, in) ==
    /\ reqPc[r] = "idle"
    /\ \A q \in Reqs : q < r => reqPc[q] # "idle"
    /\ in \in RequestInputs(r)
    /\ reqId' = [reqId EXCEPT ![r] = in.id]
    /\ reqN' = [reqN EXCEPT ![r] = in.n]
    /\ IF ~IsConnected
       THEN /\ reqPc' = [reqPc EXCEPT ![r] = "done"]
            /\ outcome' = [outcome EXCEPT ![r] = Result("notConnected", 0)]
            /\ UNCHANGED handlers
       ELSE IF in.id = 0
       THEN /\ reqPc' = [reqPc EXCEPT ![r] = "done"]
            /\ outcome' = [outcome EXCEPT ![r] = Result("missingTaskUUID", 0)]
            /\ UNCHANGED handlers
       ELSE /\ reqPc' = [reqPc EXCEPT ![r] = "registered"]
            /\ handlers' = [handlers EXCEPT ![in.id] = r]
            /\ UNCHANGED outcome
    /\ UNCHANGED <<connVars, loopVars, userVars, messageChan, nFrames, hCount, respLen,
                   respClosed, errChan, wCount, cbErr, panicked>>
    /\ UNCHANGED backoffVars
    /\ UNCHANGED <<waitVars, batchVars, pollVars, wmVars, connectCtxDone, apiVars>>
    /\ UNCHANGED firstWrite

\* Send that removes its registration when the write fails.
SendWriteRollsBack(r) ==
    /\ reqPc[r] = "registered"
    /\ firstWrite' = IF conn = 0 THEN firstWrite ELSE MarkWrite(firstWrite, conn, "request")
    /\ IF conn = 0
       THEN /\ reqPc' = [reqPc EXCEPT ![r] = "done"]
            /\ outcome' = [outcome EXCEPT ![r] = Result("notConnected", 0)]
            /\ UNCHANGED handlers
       ELSE IF sock[conn] # "open"
       THEN /\ reqPc' = [reqPc EXCEPT ![r] = "done"]
            /\ outcome' = [outcome EXCEPT ![r] = Result("sendFailed", 0)]
            /\ handlers' = removeHandler(handlers, reqId[r])
       ELSE /\ reqPc' = [reqPc EXCEPT ![r] = "waiting"]
            /\ UNCHANGED <<outcome, handlers>>
    /\ UNCHANGED <<connVars, loopVars, userVars, messageChan, nFrames, reqId, reqN, hCount,
                   respLen, respClosed, errChan, wCount, cbErr, panicked>>
    /\ UNCHANGED backoffVars
    /\ UNCHANGED <<waitVars, batchVars, pollVars, wmVars, connectCtxDone, apiVars>>

\* Send after the registration: "not connected" if c.conn is nil; otherwise
\* the frame is written under writeMu, and a failed write is returned.  The
\* registration stays in either case.
SendWrite(r) ==
    /\ reqPc[r] = "registered"
    /\ firstWrite' = IF conn = 0 THEN firstWrite ELSE MarkWrite(firstWrite, conn, "request")
    /\ IF conn = 0
       THEN /\ reqPc' = [reqPc EXCEPT ![r] = "done"]
            /\ outcome' = [outcome EXCEPT ![r] = Result("notConnected", 0)]
       ELSE IF sock[conn] # "open"
       THEN /\ reqPc' = [reqPc EXCEPT ![r] = "done"]
            /\ outcome' = [outcome EXCEPT ![r] = Result("sendFailed", 0)]
       ELSE /\ reqPc' = [reqPc EXCEPT ![r] = "waiting"]
            /\ UNCHANGED outcome
    /\ UNCHANGED <<connVars, loopVars, userVars, regVars, reqId, reqN, hCount, respLen,
                   respClosed, errChan, wCount, cbErr, panicked>>
    /\ UNCHANGED backoffVars
    /\ UNCHANGED <<waitVars, batchVars, pollVars, wmVars, connectCtxDone, apiVars>>

\* ---------------------------------------------- writes as intervals

\* Send after the registration, up to the start of the write: c.conn is
\* read under mu.RLock ("not connected" if nil), writeMu is taken and
\* WriteMessage begins.
SendLock(r) ==
    /\ reqPc[r] = "registered"
    /\ userPc # "closing"
    /\ IF conn = 0
       THEN /\ reqPc' = [reqPc EXCEPT ![r] = "done"]
            /\ outcome' = [outcome EXCEPT ![r] = Result("notConnected", 0)]
            /\ UNCHANGED <<wmVars, firstWrite>>
       ELSE /\ writeMu = Free
            /\ writeMu' = [by |-> "send", who |-> r]
            /\ writing' = writing \cup {[by |-> "send", who |-> r, sock |-> conn]}
            /\ firstWrite' = MarkWrite(firstWrite, conn, "request")
            /\ reqPc' = [reqPc EXCEPT ![r] = "writing"]
            /\ UNCHANGED outcome
    /\ UNCHANGED <<connVars, loopVars, userVars, regVars, reqId, reqN, hCount, respLen,
                   respClosed, errChan, wCount, cbErr, panicked>>
    /\ UNCHANGED backoffVars
    /\ UNCHANGED <<waitVars, batchVars, pollVars, connectCtxDone, apiVars>>

\* Send: WriteMessage returns and the deferred writeMu.Unlock runs.
SendWriteEnd(r) ==
    /\ reqPc[r] = "writing"
    /\ \E w \in writing :
          /\ w.by = "send" /\ w.who = r
          /\ writing' = writing \ {w}
          /\ IF sock[w.sock] # "open"
             THEN /\ reqPc' = [reqPc EXCEPT ![r] = "done"]
                  /\ outcome' = [outcome EXCEPT ![r] = Result("sendFailed", 0)]
             ELSE /\ reqPc' = [reqPc EXCEPT ![r] = "waiting"]
                  /\ UNCHANGED outcome
    /\ writeMu' = Free
    /\ UNCHANGED <<connVars, loopVars, userVars, regVars, reqId, reqN, hCount, respLen,
                   respClosed, errChan, wCount, cbErr, panicked>>
    /\ UNCHANGED backoffVars
    /\ UNCHANGED firstWrite
    /\ UNCHANGED <<waitVars, batchVars, pollVars, connectCtxDone, apiVars>>

\* pingLoop, a tick: c.conn is read under mu.RLock, writeMu is taken and
\* the ping's WriteMessage begins.
PingLock(g) ==
    /\ pingPc[g] = "run"
    /\ userPc # "closing"
    /\ conn # 0
    /\ writeMu = Free
    /\ writeMu' = [by |-> "ping", who |-> g]
    /\ writing' = writing \cup {[by |-> "ping", who |-> g, sock |-> conn]}
    /\ firstWrite' = MarkWrite(firstWrite, conn, "ping")
    /\ pingPc' = [pingPc EXCEPT ![g] = "writing"]
    /\ UNCHANGED <<connVars, readPc, procPc, procCall, recPc, userVars, regVars, reqVars>>
    /\ UNCHANGED backoffVars
    /\ UNCHANGED <<waitVars, batchVars, pollVars, connectCtxDone, apiVars>>

\* pingLoop: the ping's WriteMessage returns and writeMu is unlocked; a
\* failed write calls triggerReconnect and ends the loop.
PingWriteEnd(g, lockOk) ==
    /\ pingPc[g] = "writing"
    /\ \E w \in writing :
          /\ w.by = "ping" /\ w.who = g
          /\ writing' = writing \ {w}
          /\ IF sock[w.sock] # "open"
             THEN /\ LET t == triggerReconnect(connected, lockOk /\ userPc # "closing") IN
                     /\ connected' = t.connected
                     /\ reconnectChan' = t.reconnectChan
                  /\ pingPc' = [pingPc EXCEPT ![g] = "exit"]
             ELSE /\ pingPc' = [pingPc EXCEPT ![g] = "run"]
                  /\ UNCHANGED <<connected, reconnectChan>>
    /\ writeMu' = Free
    /\ UNCHANGED <<conn, sock, nConnects, stopped, autoReconnect, readPc, procPc,
                   procCall, recPc, userVars, regVars, reqVars>>
    /\ UNCHANGED backoffVars
    /\ UNCHANGED firstWrite
    /\ UNCHANGED <<waitVars, batchVars, pollVars, connectCtxDone, apiVars>>

\* Disconnect, second critical section with a socket: under mu, the close
\* frame's WriteMessage begins; writeMu is not taken.
CloseWriteBegin ==
    /\ userPc = "discWait"
    /\ conn # 0
    /\ userPc' = "closing"
    /\ writing' = writing \cup {[by |-> "close", who |-> 0, sock |-> conn]}
    /\ firstWrite' = MarkWrite(firstWrite, conn, "close")
    /\ UNCHANGED <<writeMu, lastOp, atDisc>>
    /\ UNCHANGED <<connVars, loopVars, regVars, reqVars>>
    /\ UNCHANGED backoffVars
    /\ UNCHANGED <<waitVars, batchVars, pollVars, connectCtxDone, apiVars>>

\* Disconnect: the close frame's WriteMessage returns, the socket is
\* closed, c.conn is cleared and the write's error is returned.
CloseWriteEnd ==
    /\ userPc = "closing"
    /\ userPc' = "idle"
    /\ writing' = writing \ {[by |-> "close", who |-> 0, sock |-> conn]}
    /\ lastOp' = [op |-> "disconnect", err |-> sock[conn] # "open", noop |-> FALSE]
    /\ sock' = [sock EXCEPT ![conn] = "closed"]
    /\ conn' = 0
    /\ UNCHANGED <<connected, nConnects, stopped, reconnectChan, autoReconnect,
                   loopVars, atDisc, regVars, reqVars>>
    /\ UNCHANGED <<writeMu, firstWrite>>
    /\ UNCHANGED backoffVars
    /\ UNCHANGED <<waitVars, batchVars, pollVars, connectCtxDone, apiVars>>

\* waitForSingleResponse / waitForMultipleResponses, the respChan case.
\* Single: the received value is returned.  Multiple: receivedCount is
\* incremented on every receive, the one that reports the close included,
\* and the close ends the wait with success.
WaitRecv(r) ==
    /\ reqPc[r] = "waiting"
    /\ respLen[r] > 0 \/ respClosed[r]
    /\ IF reqN[r] = 1
       THEN /\ respLen' = [respLen EXCEPT ![r] = IF @ > 0 THEN @ - 1 ELSE 0]
            /\ reqPc' = [reqPc EXCEPT ![r] = "done"]
            /\ outcome' = [outcome EXCEPT ![r] = Result("ok", 0)]
            /\ UNCHANGED wCount
       ELSE /\ wCount' = [wCount EXCEPT ![r] = @ + 1]
            /\ IF respLen[r] > 0
               THEN /\ respLen' = [respLen EXCEPT ![r] = @ - 1]
                    /\ UNCHANGED <<reqPc, outcome>>
               ELSE /\ reqPc' = [reqPc EXCEPT ![r] = "done"]
                    /\ outcome' = [outcome EXCEPT ![r] = Result("ok", wCount[r] + 1)]
                    /\ UNCHANGED respLen
    /\ UNCHANGED <<connVars, loopVars, userVars, regVars, reqId, reqN, hCount,
                   respClosed, errChan, cbErr, panicked>>
    /\ UNCHANGED backoffVars
    /\ UNCHANGED <<waitVars, batchVars, pollVars, wmVars, connectCtxDone, apiVars>>
    /\ UNCHANGED firstWrite

\* The errChan case: the error is returned.
WaitErr(r) ==
    /\ reqPc[r] = "waiting"
    /\ errChan[r] # NoErr
    /\ errChan' = [errChan EXCEPT ![r] = NoErr]
    /\ reqPc' = [reqPc EXCEPT ![r] = "done"]
    /\ outcome' = [outcome EXCEPT ![r] = Result("error", wCount[r])]
    /\ UNCHANGED <<connVars, loopVars, userVars, regVars, reqId, reqN, hCount, respLen,
                   respClosed, wCount, cbErr, panicked>>
    /\ UNCHANGED backoffVars
    /\ UNCHANGED <<waitVars, batchVars, pollVars, wmVars, connectCtxDone, apiVars>>
    /\ UNCHANGED firstWrite

\* The timer case: a TimeoutError with ReceivedCount 0 (single) or the
\* waiter's receivedCount (multiple).
WaitTimeout(r) ==
    /\ reqPc[r] = "waiting"
    /\ reqPc' = [reqPc EXCEPT ![r] = "done"]
    /\ outcome' = [outcome EXCEPT ![r] =
                     Result("timeout", IF reqN[r] = 1 THEN 0 ELSE wCount[r])]
    /\ UNCHANGED <<connVars, loopVars, userVars, regVars, reqId, reqN, hCount, respLen,
                   respClosed, errChan, wCount, cbErr, panicked>>
    /\ UNCHANGED backoffVars
    /\ UNCHANGED <<waitVars, batchVars, pollVars, wmVars, connectCtxDone, apiVars>>
    /\ UNCHANGED firstWrite

\* The ctx.Done() case: ctx.Err() is returned.
WaitCancel(r) ==
    /\ reqPc[r] = "waiting"
    /\ reqPc' = [reqPc EXCEPT ![r] = "done"]
    /\ outcome' = [outcome EXCEPT ![r] = Result("cancelled", wCount[r])]
    /\ UNCHANGED <<connVars, loopVars, userVars, regVars, reqId, reqN, hCount, respLen,
                   respClosed, errChan, wCount, cbErr, panicked>>
    /\ UNCHANGED backoffVars
    /\ UNCHANGED <<waitVars, batchVars, pollVars, wmVars, connectCtxDone, apiVars>>
    /\ UNCHANGED firstWrite

\* ------------------------------------------------- the waiter's clock

\* waitForResponse: the timer's duration is c.requestTimeout, replaced by
\* time.Until(deadline) when ctx carries a deadline.
EffectiveTimeout(rt, dl) == IF dl # NoDeadline THEN dl ELSE rt

\* waitForResponse is entered with a request timeout and a context whose
\* deadline, if any, is dl time units ahead (0: already reached).
WaitBegin(rt, dl) ==
    /\ wPc = "idle"
    /\ wPc' = "waiting"
    /\ requestTimeout' = rt
    /\ deadline' = dl
    /\ timeout' = EffectiveTimeout(rt, dl)
    /\ now' = 0
    /\ UNCHANGED wResult
    /\ UNCHANGED <<clientVars, batchVars, pollVars, apiVars>>

\* Time passes while no case of the waiter's select is ready.
Tick ==
    /\ wPc = "waiting"
    /\ now < timeout
    /\ deadline # NoDeadline => now < deadline
    /\ now' = now + 1
    /\ UNCHANGED <<wPc, requestTimeout, deadline, timeout, wResult>>
    /\ UNCHANGED <<clientVars, batchVars, pollVars, apiVars>>

\* case <-timeoutTimer: ErrTimeout / TimeoutError.
TimerFires ==
    /\ wPc = "waiting"
    /\ now >= timeout
    /\ wPc' = "done"
    /\ wResult' = "timeout"
    /\ UNCHANGED <<now, requestTimeout, deadline, timeout>>
    /\ UNCHANGED <<clientVars, batchVars, pollVars, apiVars>>

\* case <-ctx.Done() at the deadline: ctx.Err().
CtxDone ==
    /\ wPc = "waiting"
    /\ deadline # NoDeadline
    /\ now >= deadline
    /\ wPc' = "done"
    /\ wResult' = "ctxErr"
    /\ UNCHANGED <<now, requestTimeout, deadline, timeout>>
    /\ UNCHANGED <<clientVars, batchVars, pollVars, apiVars>>

\* case resp := <-respChan: the reply arrives while the waiter waits.
RespArrives ==
    /\ wPc = "waiting"
    /\ wPc' = "done"
    /\ wResult' = "resp"
    /\ UNCHANGED <<now, requestTimeout, deadline, timeout>>
    /\ UNCHANGED <<clientVars, batchVars, pollVars, apiVars>>

\* ---------------------------------------------------------- processBatch

\* handler(ctx, request) for item i: its payload, or its own error.
Payload(i) == i + 1
Cause(i) == i + 1

\* maxParallel: 4 x GOMAXPROCS, at least MinParallel, at most len(requests).
maxParallel(n, p) ==
    LET a == p * 4
        b == IF a < MinParallel THEN MinParallel ELSE a
    IN  IF n < b THEN n ELSE b

\* The collecting loop written by completion order instead of by index.
RECURSIVE CollectResponsesInArrivalOrder(_, _, _)
CollectResponsesInArrivalOrder(rs, fl, acc) ==
    IF rs = <<>> THEN acc
    ELSE LET idx == Head(rs)
             pos == Len(results) - Len(rs)
         IN  CollectResponsesInArrivalOrder(Tail(rs), fl,
                 IF idx \in fl THEN acc ELSE [acc EXCEPT ![pos] = Payload(idx)])

\* for r := range results: responses[r.index] = r.resp for a success.
RECURSIVE CollectResponses(_, _, _)
CollectResponses(rs, fl, acc) ==
    IF rs = <<>> THEN acc
    ELSE LET idx == Head(rs)
         IN  CollectResponses(Tail(rs), fl,
                 IF idx \in fl THEN acc ELSE [acc EXCEPT ![idx] = Payload(idx)])

\* The collecting loop with errors that lose their index.
RECURSIVE CollectErrsNoIndex(_, _)
CollectErrsNoIndex(rs, fl) ==
    IF rs = <<>> THEN <<>>
    ELSE LET idx == Head(rs)
         IN  IF idx \in fl
             THEN <<[index |-> 0, cause |-> Cause(idx)]>> \o CollectErrsNoIndex(Tail(rs), fl)
             ELSE CollectErrsNoIndex(Tail(rs), fl)

\* for r := range results: errs = append(errs, "request <index>: <err>").
RECURSIVE CollectErrs(_, _)
CollectErrs(rs, fl) ==
    IF rs = <<>> THEN <<>>
    ELSE LET idx == Head(rs)
         IN  IF idx \in fl
             THEN <<[index |-> idx, cause |-> Cause(idx)]>> \o CollectErrs(Tail(rs), fl)
             ELSE CollectErrs(Tail(rs), fl)

\* processBatch is called with n requests of which those in f fail, on p
\* processors; an empty batch returns nil, ErrInvalidRequest at once.
BatchBegin(n, f, p) ==
    /\ bPc = "idle"
    /\ f \subseteq 0..(n - 1)
    /\ bN' = n
    /\ failing' = f
    /\ procs' = p
    /\ IF n = 0
       THEN /\ bPc' = "done"
            /\ batchErr' = [kind |-> "ErrInvalidRequest", errs |-> <<>>]
       ELSE /\ bPc' = "running"
            /\ UNCHANGED batchErr
    /\ UNCHANGED <<launched, running, results, responses>>
    /\ UNCHANGED <<clientVars, waitVars, pollVars, apiVars>>

\* The launching loop without the semaphore.
LaunchUnbounded ==
    /\ bPc = "running"
    /\ launched < bN
    /\ launched' = launched + 1
    /\ running' = running \cup {launched}
    /\ UNCHANGED <<bPc, bN, failing, procs, results, responses, batchErr>>
    /\ UNCHANGED <<clientVars, waitVars, pollVars, apiVars>>

\* The launching loop with a semaphore one slot smaller than maxParallel.
LaunchSemTooSmall ==
    /\ bPc = "running"
    /\ launched < bN
    /\ Cardinality(running) < maxParallel(bN, procs) - 1
    /\ launched' = launched + 1
    /\ running' = running \cup {launched}
    /\ UNCHANGED <<bPc, bN, failing, procs, results, responses, batchErr>>
    /\ UNCHANGED <<clientVars, waitVars, pollVars, apiVars>>

\* One iteration of the launching loop: a sem slot is taken (blocking while
\* maxParallel are held), then the goroutine of the next item starts.
Launch ==
    /\ bPc = "running"
    /\ launched < bN
    /\ Cardinality(running) < maxParallel(bN, procs)
    /\ launched' = launched + 1
    /\ running' = running \cup {launched}
    /\ UNCHANGED <<bPc, bN, failing, procs, results, responses, batchErr>>
    /\ UNCHANGED <<clientVars, waitVars, pollVars, apiVars>>

\* The goroutine of item i: handler returns, the result is sent (the
\* channel has room for all), the sem slot is released and wg.Done runs.
Finish(i) ==
    /\ i \in running
    /\ running' = running \ {i}
    /\ results' = Append(results, i)
    /\ UNCHANGED <<bPc, bN, failing, procs, launched, responses, batchErr>>
    /\ UNCHANGED <<clientVars, waitVars, pollVars, apiVars>>

\* A return that does not wait for the remaining items once one has failed.
CollectOnFirstError ==
    /\ bPc = "running"
    /\ running = {}
    /\ launched = bN \/ \E k \in 1..Len(results) : results[k] \in failing
    /\ bPc' = "done"
    /\ responses' = CollectResponses(results, failing, [i \in 0..(bN - 1) |-> ZeroResp])
    /\ LET errs == CollectErrs(results, failing)
       IN  batchErr' = IF Len(errs) > 0 THEN [kind |-> "batch errors", errs |-> errs]
                       ELSE NoBatchErr
    /\ UNCHANGED <<bN, failing, procs, launched, running, results>>
    /\ UNCHANGED <<clientVars, waitVars, pollVars, apiVars>>

\* After wg.Wait() and close(results): the collecting loop and the return.
Collect ==
    /\ bPc = "running"
    /\ launched = bN
    /\ running = {}
    /\ bPc' = "done"
    /\ responses' = CollectResponses(results, failing, [i \in 0..(bN - 1) |-> ZeroResp])
    /\ LET errs == CollectErrs(results, failing)
       IN  batchErr' = IF Len(errs) > 0 THEN [kind |-> "batch errors", errs |-> errs]
                       ELSE NoBatchErr
    /\ UNCHANGED <<bN, failing, procs, launched, running, results>>
    /\ UNCHANGED <<clientVars, waitVars, pollVars, apiVars>>

\* ------------------------------------------------------ PollVideoResult

\* What one GetResponse of the poller returns: a VideoInferenceResponse with
\* a status (processing, empty, unknown, success, error), a response of
\* another type, a TimeoutError / ErrTimeout, context.DeadlineExceeded of
\* the poll's own context, or another error.
FetchOutcomes ==
    {"processing", "empty", "unknown", "success", "error", "wrongType",
     "TimeoutError", "DeadlineExceeded", "otherError"}

\* IsTimeout: errors.Is(err, ErrTimeout) or errors.As(err, *TimeoutError).
IsTimeout(e) == e \in {"ErrTimeout", "TimeoutError"}

\* PollVideoResult is called with an attempt budget.
PollBegin(m) ==
    /\ pPc = "idle"
    /\ pPc' = "top"
    /\ maxAttempts' = m
    /\ attempt' = 1
    /\ UNCHANGED <<polls, ctxDone, history, pResult>>
    /\ UNCHANGED <<clientVars, waitVars, batchVars, apiVars>>

\* The loop head that reports an exhausted budget as a timeout.
PollTopTimeoutOnExhaust ==
    /\ pPc = "top"
    /\ IF attempt > maxAttempts
       THEN /\ pPc' = "done"
            /\ pResult' = "ErrTimeout"
            /\ UNCHANGED polls
       ELSE IF ctxDone
       THEN /\ pPc' = "done"
            /\ pResult' = "ctxErr"
            /\ UNCHANGED polls
       ELSE /\ pPc' = "fetch"
            /\ polls' = polls + 1
            /\ UNCHANGED pResult
    /\ UNCHANGED <<attempt, maxAttempts, ctxDone, history>>
    /\ UNCHANGED <<clientVars, waitVars, batchVars, apiVars>>

\* The loop head: attempt <= maxAttempts or "polling exhausted"; the
\* non-blocking check of ctx.Done(); then GetResponse is called under a
\* fresh 30 s context derived from context.Background().
PollTop ==
    /\ pPc = "top"
    /\ IF attempt > maxAttempts
       THEN /\ pPc' = "done"
            /\ pResult' = "pollingExhausted"
            /\ UNCHANGED polls
       ELSE IF ctxDone
       THEN /\ pPc' = "done"
            /\ pResult' = "ctxErr"
            /\ UNCHANGED polls
       ELSE /\ pPc' = "fetch"
            /\ polls' = polls + 1
            /\ UNCHANGED pResult
    /\ UNCHANGED <<attempt, maxAttempts, ctxDone, history>>
    /\ UNCHANGED <<clientVars, waitVars, batchVars, apiVars>>

\* GetResponse returns and a success status is treated as still in progress.
FetchEndIgnoresSuccess(out) ==
    /\ pPc = "fetch"
    /\ history' = Append(history, out)
    /\ IF out \in {"TimeoutError", "DeadlineExceeded"}
       THEN pPc' = "sleep" /\ UNCHANGED pResult
       ELSE IF out = "otherError"
       THEN pPc' = "done" /\ pResult' = "otherError"
       ELSE IF out = "wrongType"
       THEN pPc' = "done" /\ pResult' = "unexpectedType"
       ELSE IF out = "error"
       THEN pPc' = "done" /\ pResult' = "generationFailed"
       ELSE IF out \in {"processing", "empty", "success"}
       THEN pPc' = "sleepCtx" /\ UNCHANGED pResult
       ELSE pPc' = "sleep" /\ UNCHANGED pResult
    /\ UNCHANGED <<attempt, maxAttempts, polls, ctxDone>>
    /\ UNCHANGED <<clientVars, waitVars, batchVars, apiVars>>

\* GetResponse returns and a poll-level timeout ends the polling.
FetchEndAbortsOnTimeout(out) ==
    /\ pPc = "fetch"
    /\ history' = Append(history, out)
    /\ IF out \in {"TimeoutError", "DeadlineExceeded", "otherError"}
       THEN pPc' = "done" /\ pResult' = out
       ELSE IF out = "wrongType"
       THEN pPc' = "done" /\ pResult' = "unexpectedType"
       ELSE IF out = "success"
       THEN pPc' = "done" /\ pResult' = "success"
       ELSE IF out = "error"
       THEN pPc' = "done" /\ pResult' = "generationFailed"
       ELSE IF out \in {"processing", "empty"}
       THEN pPc' = "sleepCtx" /\ UNCHANGED pResult
       ELSE pPc' = "sleep" /\ UNCHANGED pResult
    /\ UNCHANGED <<attempt, maxAttempts, polls, ctxDone>>
    /\ UNCHANGED <<clientVars, waitVars, batchVars, apiVars>>

\* GetResponse returns: a timeout of the poll sleeps (time.Sleep) and
\* continues; another error, a response of another type, a success and an
\* error status return; processing or an empty status waits in a select
\* on ctx.Done(); an unknown status sleeps (time.Sleep).
FetchEnd(out) ==
    /\ pPc = "fetch"
    /\ history' = Append(history, out)
    /\ IF out \in {"TimeoutError", "DeadlineExceeded"}
       THEN pPc' = "sleep" /\ UNCHANGED pResult
       ELSE IF out = "otherError"
       THEN pPc' = "done" /\ pResult' = "otherError"
       ELSE IF out = "wrongType"
       THEN pPc' = "done" /\ pResult' = "unexpectedType"
       ELSE IF out = "success"
       THEN pPc' = "done" /\ pResult' = "success"
       ELSE IF out = "error"
       THEN pPc' = "done" /\ pResult' = "generationFailed"
       ELSE IF out \in {"processing", "empty"}
       THEN pPc' = "sleepCtx" /\ UNCHANGED pResult
       ELSE pPc' = "sleep" /\ UNCHANGED pResult
    /\ UNCHANGED <<attempt, maxAttempts, polls, ctxDone>>
    /\ UNCHANGED <<clientVars, waitVars, batchVars, apiVars>>

\* time.Sleep(pollInterval) ends: the next iteration.
SleepEnd ==
    /\ pPc = "sleep"
    /\ pPc' = "top"
    /\ attempt' = attempt + 1
    /\ UNCHANGED <<maxAttempts, polls, ctxDone, history, pResult>>
    /\ UNCHANGED <<clientVars, waitVars, batchVars, apiVars>>

\* The select after an in-progress status, case <-time.After(pollInterval).
SleepCtxTimer ==
    /\ pPc = "sleepCtx"
    /\ pPc' = "top"
    /\ attempt' = attempt + 1
    /\ UNCHANGED <<maxAttempts, polls, ctxDone, history, pResult>>
    /\ UNCHANGED <<clientVars, waitVars, batchVars, apiVars>>

\* The select after an in-progress status, case <-ctx.Done().
SleepCtxCancel ==
    /\ pPc = "sleepCtx"
    /\ ctxDone
    /\ pPc' = "done"
    /\ pResult' = "ctxErr"
    /\ UNCHANGED <<attempt, maxAttempts, polls, ctxDone, history>>
    /\ UNCHANGED <<clientVars, waitVars, batchVars, apiVars>>

\* The caller cancels ctx while PollVideoResult runs.
Cancel ==
    /\ pPc \notin {"idle", "done"}
    /\ ~ctxDone
    /\ ctxDone' = TRUE
    /\ UNCHANGED <<pPc, attempt, maxAttempts, polls, history, pResult>>
    /\ UNCHANGED <<clientVars, waitVars, batchVars, apiVars>>

\* ------------------------------------------------------- specification

\* The connection lifecycle alone: Connect, Disconnect, the network, the
\* background loops and the Reconnect Supervisor, under every outcome of a
\* dial and of mu.TryLock().
NextLife ==
    \/ ~panicked /\ \E out \in ConnectOutcomes : UserConnect(out)
    \/ ~panicked /\ DisconnectBegin
    \/ ~panicked /\ DisconnectFinish
    \/ ~panicked /\ \E s \in Gens : NetworkFail(s)
    \/ ~panicked /\ \E g \in Gens, lockOk \in BOOLEAN : ReadError(g, lockOk)
    \/ ~panicked /\ \E g \in Gens, lockOk \in BOOLEAN : PingFail(g, lockOk)
    \/ ~panicked /\ \E g \in Gens : PingTick(g)
    \/ ~panicked /\ \E g \in Gens : PingExit(g)
    \/ ~panicked /\ \E g \in Gens : RecTake(g)
    \/ ~panicked /\ \E g \in Gens : RecExit(g)
    \/ ~panicked /\ \E g \in Gens : RecWake(g)
    \/ ~panicked /\ \E g \in Gens, out \in ConnectOutcomes, lockOk \in BOOLEAN : RecConnect(g, out, lockOk)
    \/ ~panicked /\ \E g \in Gens : ProcExit(g)

SpecLife == Init /\ [][NextLife]_vars

\* Requests over one connection: sendRequest, the router and the waiter.
NextRoute ==
    \/ ~panicked /\ UserConnect("ok")
    \/ ~panicked /\ \E g \in Gens, f \in Frames : ReadFrame(g, f)
    \/ ~panicked /\ \E g \in Gens : ProcTake(g)
    \/ ~panicked /\ \E g \in Gens : ProcInvoke(g)
    \/ ~panicked /\ \E r \in Reqs, in \in [id : Keys, n : 1..MaxExpected] : SendRegister(r, in)
    \/ ~panicked /\ \E r \in Reqs : SendWrite(r)
    \/ ~panicked /\ \E r \in Reqs : WaitRecv(r)
    \/ ~panicked /\ \E r \in Reqs : WaitErr(r)
    \/ ~panicked /\ \E r \in Reqs : WaitTimeout(r)
    \/ ~panicked /\ \E r \in Reqs : WaitCancel(r)

SpecRoute == Init /\ [][NextRoute]_vars

\* One request over a connection that is lost and re-established by the
\* Reconnect Supervisor; every successful Connect starts its own loops.
NextReconnect ==
    \/ ~panicked /\ UserConnect("ok")
    \/ ~panicked /\ \E s \in Gens : NetworkFail(s)
    \/ ~panicked /\ \E g \in Gens, f \in Frames : ReadFrame(g, f)
    \/ ~panicked /\ \E g \in Gens : ReadError(g, TRUE)
    \/ ~panicked /\ \E g \in Gens : RecTake(g)
    \/ ~panicked /\ \E g \in Gens : RecWake(g)
    \/ ~panicked /\ \E g \in Gens : RecConnect(g, "ok", TRUE)
    \/ ~panicked /\ \E g \in Gens : ProcTake(g)
    \/ ~panicked /\ \E g \in Gens : ProcInvoke(g)
    \/ ~panicked /\ \E in \in [id : Ids, n : 1..MaxExpected] : SendRegister(1, in)
    \/ ~panicked /\ SendWrite(1)
    \/ ~panicked /\ WaitRecv(1)
    \/ ~panicked /\ WaitErr(1)
    \/ ~panicked /\ WaitTimeout(1)
    \/ ~panicked /\ WaitCancel(1)

SpecReconnect == Init /\ [][NextReconnect]_vars

\* One request and an application that disconnects.
NextInFlight ==
    \/ ~panicked /\ UserConnect("ok")
    \/ ~panicked /\ DisconnectBegin
    \/ ~panicked /\ DisconnectFinish
    \/ ~panicked /\ \E g \in Gens, f \in Frames : ReadFrame(g, f)
    \/ ~panicked /\ \E g \in Gens : ReadError(g, TRUE)
    \/ ~panicked /\ \E g \in Gens : ProcTake(g)
    \/ ~panicked /\ \E g \in Gens : ProcInvoke(g)
    \/ ~panicked /\ \E g \in Gens : ProcExit(g)
    \/ ~panicked /\ \E in \in [id : Ids, n : 1..MaxExpected] : SendRegister(1, in)
    \/ ~panicked /\ SendWrite(1)
    \/ ~panicked /\ WaitRecv(1)
    \/ ~panicked /\ WaitErr(1)
    \/ ~panicked /\ WaitTimeout(1)
    \/ ~panicked /\ WaitCancel(1)

SpecInFlight == Init /\ [][NextInFlight]_vars

\* The Reconnect Supervisor alone: one Connect by the application, then
\* connection losses and reconnect attempts that fail or succeed.
NextBackoff ==
    \/ nConnects = 0 /\ UserConnect("ok")
    \/ \E s \in Gens : NetworkFail(s)
    \/ \E g \in Gens : ReadError(g, TRUE)
    \/ \E g \in Gens : RecTake(g)
    \/ \E g \in Gens : RecWake(g)
    \/ \E g \in Gens, out \in {"dialFail", "ok"} : RecConnect(g, out, TRUE)

SpecBackoff == Init /\ [][NextBackoff]_vars

\* The connection lifecycle with one request sent over it: every writer of
\* frames (authenticate, Send, pingLoop, Disconnect) against every Connect.
NextWire ==
    \/ ~panicked /\ \E out \in ConnectOutcomes : UserConnect(out)
    \/ ~panicked /\ DisconnectBegin
    \/ ~panicked /\ DisconnectFinish
    \/ ~panicked /\ \E s \in Gens : NetworkFail(s)
    \/ ~panicked /\ \E g \in Gens, lockOk \in BOOLEAN : ReadError(g, lockOk)
    \/ ~panicked /\ \E g \in Gens, lockOk \in BOOLEAN : PingFail(g, lockOk)
    \/ ~panicked /\ \E g \in Gens : PingTick(g)
    \/ ~panicked /\ \E g \in Gens : PingExit(g)
    \/ ~panicked /\ \E g \in Gens : RecTake(g)
    \/ ~panicked /\ \E g \in Gens : RecExit(g)
    \/ ~panicked /\ \E g \in Gens : RecWake(g)
    \/ ~panicked /\ \E g \in Gens, out \in ConnectOutcomes, lockOk \in BOOLEAN : RecConnect(g, out, lockOk)
    \/ ~panicked /\ \E g \in Gens : ProcExit(g)
    \/ ~panicked /\ \E in \in [id : Keys, n : {1}] : SendRegister(1, in)
    \/ ~panicked /\ SendWrite(1)
    \/ ~panicked /\ WaitTimeout(1)

SpecWire == Init /\ [][NextWire]_vars

\* The waiter under a clock, for every request timeout and every context
\* deadline (none, already reached, before, at and after the timeout).
NextWait ==
    \/ \E rt \in 1..MaxTimeout, dl \in {NoDeadline} \cup 0..(MaxTimeout + 1) : WaitBegin(rt, dl)
    \/ Tick
    \/ TimerFires
    \/ CtxDone
    \/ RespArrives

SpecWait == Init /\ [][NextWait]_vars

\* processBatch over small batches: every size, every set of failing
\* items, every processor count and every completion order.
NextBatch ==
    \/ \E n \in 0..MaxBatch, f \in SUBSET (0..(MaxBatch - 1)), p \in 1..MaxProcs : BatchBegin(n, f, p)
    \/ Launch
    \/ \E i \in 0..(MaxBatch - 1) : Finish(i)
    \/ Collect

SpecBatch == Init /\ [][NextBatch]_vars

\* processBatch over a batch larger than MinParallel, no item failing.
NextBatchBound ==
    \/ BatchBegin(BigBatch, {}, 1)
    \/ Launch
    \/ \E i \in 0..(BigBatch - 1) : Finish(i)
    \/ Collect

SpecBatchBound == Init /\ [][NextBatchBound]_vars

\* The goroutine of item i finishes.  In a batch larger than MaxBatch only
\* the oldest or the newest running goroutine is taken next, which bounds
\* the completion orders explored for the large batch; in a small batch
\* any running goroutine.
FinishSome(i) ==
    /\ i \in running
    /\ \/ bN <= MaxBatch
       \/ \A j \in running : i <= j
       \/ \A j \in running : i >= j
    /\ Finish(i)

\* processBatch over the small batches of NextBatch and over one batch
\* larger than the semaphore, in which the launching loop has to wait for
\* a slot.
NextBatchLive ==
    \/ \E n \in 0..MaxBatch, f \in SUBSET (0..(MaxBatch - 1)), p \in 1..MaxProcs : BatchBegin(n, f, p)
    \/ BatchBegin(BigBatch, {}, 1)
    \/ Launch
    \/ \E i \in 0..(BigBatch - 1) : FinishSome(i)
    \/ Collect

\* processBatch when every handler invocation terminates: while goroutines
\* are running one of them eventually finishes, and the function's own
\* steps, the launching loop and the collection after wg.Wait, are taken
\* when they stay possible.
SpecBatchLive ==
    /\ Init
    /\ [][NextBatchLive]_vars
    /\ WF_vars(Launch)
    /\ WF_vars(Collect)
    /\ WF_vars(\E i \in 0..(BigBatch - 1) : FinishSome(i))

\* The poller against every sequence of GetResponse results, every budget
\* and a cancellation at any point.
NextPoll ==
    \/ \E m \in 0..MaxAttempts : PollBegin(m)
    \/ PollTop
    \/ \E out \in FetchOutcomes : FetchEnd(out)
    \/ SleepEnd
    \/ SleepCtxTimer
    \/ SleepCtxCancel
    \/ Cancel

SpecPoll == Init /\ [][NextPoll]_vars

\* The writers of the socket with their writes as intervals: Send, the
\* pingLoop and Disconnect's close frame, one request, Connects that
\* succeed (authenticate writes under writeMu, inside Connect's hold of mu).
NextWrite ==
    \/ ~panicked /\ writeMu = Free /\ UserConnect("ok")
    \/ ~panicked /\ DisconnectBegin
    \/ ~panicked /\ CloseWriteBegin
    \/ ~panicked /\ CloseWriteEnd
    \/ ~panicked /\ \E g \in Gens : PingLock(g)
    \/ ~panicked /\ \E g \in Gens, lockOk \in BOOLEAN : PingWriteEnd(g, lockOk)
    \/ ~panicked /\ \E g \in Gens : PingExit(g)
    \/ ~panicked /\ \E in \in [id : Ids, n : {1}] : SendRegister(1, in)
    \/ ~panicked /\ SendLock(1)
    \/ ~panicked /\ SendWriteEnd(1)
    \/ ~panicked /\ WaitTimeout(1)

SpecWrite == Init /\ [][NextWrite]_vars

\* The connection lifecycle with a Disconnect that, once called, is
\* scheduled: the 5 s timer of its wait fires and mu, held by others only
\* for bounded critical sections, is obtained.  Nothing is assumed about
\* the background loops.
SpecLifeFair == SpecLife /\ WF_vars(DisconnectFinish)

\* The Reconnect Supervisor against a server that accepts every dial, with
\* the application's Connect context ending at any time after the Connect.
NextCtx ==
    \/ nConnects = 0 /\ UserConnect("ok")
    \/ ConnectCtxCancel
    \/ \E s \in Gens : NetworkFail(s)
    \/ \E g \in Gens, lockOk \in BOOLEAN : ReadError(g, lockOk)
    \/ \E g \in Gens, lockOk \in BOOLEAN : PingFail(g, lockOk)
    \/ \E g \in Gens : RecTake(g)
    \/ \E g \in Gens : RecWake(g)
    \/ \E g \in Gens, lockOk \in BOOLEAN : RecConnect(g, "ok", lockOk)

SpecCtx == Init /\ [][NextCtx]_vars

\* ------------------------------------------------ typed request methods

\* The response struct parseResponseByType decodes an item of kind tt into.
ResponseType(tt) ==
    CASE tt = "imageInference" -> "ImageInferenceResponse"
      [] tt = "imageUpload" -> "UploadImageResponse"
      [] tt = "imageUpscale" -> "UpscaleGanResponse"
      [] tt = "imageBackgroundRemoval" -> "RemoveImageBackgroundResponse"
      [] tt = "promptEnhance" -> "EnhancePromptResponse"
      [] tt = "imageCaption" -> "ImageCaptionResponse"
      [] tt = "videoInference" -> "VideoInferenceResponse"
      [] tt = "audioInference" -> "AudioInferenceResponse"
      [] OTHER -> "nil"

Decoded(t, item) == [type |-> t, status |-> item.status]

\* parseGetResponse: the item is tried as a video response first and kept
\* as one if it has a status or a video field; only otherwise is it tried
\* as an audio response; nil if neither fits.
parseGetResponse(item) ==
    IF item.decodes /\ (item.status # "" \/ item.video)
    THEN Decoded("VideoInferenceResponse", item)
    ELSE IF item.decodesAudio /\ (item.status # "" \/ item.audio)
    THEN Decoded("AudioInferenceResponse", item)
    ELSE NilResult

\* parseResponseByType over a whole item: the struct of the item's own
\* taskType, nil for an unknown kind or a failed decode.
parseResponseByTypeItem(item) ==
    IF item.taskType = "getResponse" THEN parseGetResponse(item)
    ELSE IF item.taskType = "unknown" \/ ~item.decodes THEN NilResult
    ELSE Decoded(ResponseType(item.taskType), item)

Methods ==
    {"ImageInference", "UploadImage", "UpscaleImage", "RemoveBackground",
     "EnhancePrompt", "CaptionImage", "VideoInference", "AudioInference"}

\* The response type in a typed method's signature.
OwnType(m) ==
    CASE m = "ImageInference" -> "ImageInferenceResponse"
      [] m = "UploadImage" -> "UploadImageResponse"
      [] m = "UpscaleImage" -> "UpscaleGanResponse"
      [] m = "RemoveBackground" -> "RemoveImageBackgroundResponse"
      [] m = "EnhancePrompt" -> "EnhancePromptResponse"
      [] m = "CaptionImage" -> "ImageCaptionResponse"
      [] m = "VideoInference" -> "VideoInferenceResponse"
      [] m = "AudioInference" -> "AudioInferenceResponse"

\* The last statement of a typed method.  AudioInference uses the
\* two-value form, if resp, ok := result.(*T); ok, and falls back to
\* ErrInvalidResponse; the other seven use the one-value form
\* result.(*T), which panics when result is nil or of another type.
TypeAssert(m, res) ==
    IF res.type = OwnType(m) THEN "response"
    ELSE IF m = "AudioInference" THEN "ErrInvalidResponse"
    ELSE "panic"

\* A typed method calls sendRequest: channel of capacity expectedCount,
\* callback registered, request written.
TypedBegin(m, n) ==
    /\ tPc = "idle"
    /\ tPc' = "waiting"
    /\ tMethod' = m
    /\ tExpected' = n
    /\ tChan' = <<>>
    /\ tDelivered' = 0
    /\ tFirst' = NilResult
    /\ tOut' = "none"
    /\ UNCHANGED <<clientVars, waitVars, batchVars, pollVars, audioVars>>

\* processResponseItem for an item under the request's taskUUID: the item
\* is decoded by its own taskType and the callback sends the result to
\* respChan; the entry is removed with the expectedCount-th result.
TypedDeliver(item) ==
    /\ tPc \in {"waiting", "return"}
    /\ tDelivered < tExpected
    /\ tChan' = Append(tChan, parseResponseByTypeItem(item))
    /\ tDelivered' = tDelivered + 1
    /\ UNCHANGED <<tPc, tMethod, tExpected, tFirst, tOut>>
    /\ UNCHANGED <<clientVars, waitVars, batchVars, pollVars, audioVars>>

\* waitForResponse receives from respChan.  waitForSingleResponse
\* (expectedCount 1) returns what it receives; waitForMultipleResponses
\* keeps the first non-nil result as firstResp and returns it on the
\* closed, drained channel.
TypedRecv ==
    /\ tPc = "waiting"
    /\ IF tChan # <<>>
       THEN /\ tFirst' = IF tFirst = NilResult THEN Head(tChan) ELSE tFirst
            /\ tChan' = Tail(tChan)
            /\ tPc' = IF tExpected = 1 THEN "return" ELSE tPc
       ELSE /\ tDelivered = tExpected
            /\ tPc' = "return"
            /\ UNCHANGED <<tFirst, tChan>>
    /\ UNCHANGED <<tMethod, tExpected, tDelivered, tOut>>
    /\ UNCHANGED <<clientVars, waitVars, batchVars, pollVars, audioVars>>

\* waitForResponse returns an error (timeout, cancellation, service
\* error): the typed method passes it on.
TypedFail(e) ==
    /\ tPc = "waiting"
    /\ tPc' = "done"
    /\ tOut' = e
    /\ UNCHANGED <<tMethod, tExpected, tChan, tDelivered, tFirst>>
    /\ UNCHANGED <<clientVars, waitVars, batchVars, pollVars, audioVars>>

\* The typed method converts sendRequest's result to its own type.
TypedReturn ==
    /\ tPc = "return"
    /\ tPc' = "done"
    /\ tOut' = TypeAssert(tMethod, tFirst)
    /\ UNCHANGED <<tMethod, tExpected, tChan, tDelivered, tFirst>>
    /\ UNCHANGED <<clientVars, waitVars, batchVars, pollVars, audioVars>>

\* ------------------------------------------------------ PollAudioResult

AudioPollBegin(m) ==
    /\ aPc = "idle"
    /\ aPc' = "top"
    /\ aAttempt' = 1
    /\ aMax' = m
    /\ UNCHANGED <<aCtxDone, aLast, aResult>>
    /\ UNCHANGED <<clientVars, waitVars, batchVars, pollVars, typedVars>>

\* Head of the loop: the attempt budget, then the caller's ctx.
AudioPollTop ==
    /\ aPc = "top"
    /\ IF aAttempt > aMax
       THEN aPc' = "done" /\ aResult' = "pollingExhausted"
       ELSE IF aCtxDone
       THEN aPc' = "done" /\ aResult' = "ctxErr"
       ELSE aPc' = "fetch" /\ UNCHANGED aResult
    /\ UNCHANGED <<aAttempt, aMax, aCtxDone, aLast>>
    /\ UNCHANGED <<clientVars, waitVars, batchVars, pollVars, typedVars>>

\* GetResponse returns an error: a timeout of this fetch is slept over and
\* retried, any other error is returned.
AudioFetchErr(e) ==
    /\ aPc = "fetch"
    /\ IF IsTimeout(e) \/ e = "DeadlineExceeded"
       THEN aPc' = "sleep" /\ UNCHANGED aResult
       ELSE aPc' = "done" /\ aResult' = e
    /\ aLast' = NoItem
    /\ UNCHANGED <<aAttempt, aMax, aCtxDone>>
    /\ UNCHANGED <<clientVars, waitVars, batchVars, pollVars, typedVars>>

\* GetResponse is answered by an item: sendRequest returns the router's
\* decoding of it.  Only a *AudioInferenceResponse is looked at; anything
\* else falls through the if and the loop goes on with the next attempt,
\* without sleeping.
AudioFetchEnd(item) ==
    /\ aPc = "fetch"
    /\ aLast' = item
    /\ LET resp == parseResponseByTypeItem(item) IN
       IF resp.type = "AudioInferenceResponse"
       THEN IF resp.status = "success"
            THEN aPc' = "done" /\ aResult' = "success" /\ UNCHANGED aAttempt
            ELSE IF resp.status = "error"
            THEN aPc' = "done" /\ aResult' = "generationFailed" /\ UNCHANGED aAttempt
            ELSE IF resp.status \in {"processing", ""}
            THEN aPc' = "sleepCtx" /\ UNCHANGED <<aResult, aAttempt>>
            ELSE aPc' = "sleep" /\ UNCHANGED <<aResult, aAttempt>>
       ELSE aPc' = "top" /\ aAttempt' = aAttempt + 1 /\ UNCHANGED aResult
    /\ UNCHANGED <<aMax, aCtxDone>>
    /\ UNCHANGED <<clientVars, waitVars, batchVars, pollVars, typedVars>>

\* time.Sleep(pollInterval) ends; next attempt.
AudioSleepEnd ==
    /\ aPc = "sleep"
    /\ aPc' = "top"
    /\ aAttempt' = aAttempt + 1
    /\ UNCHANGED <<aMax, aCtxDone, aLast, aResult>>
    /\ UNCHANGED <<clientVars, waitVars, batchVars, pollVars, typedVars>>

\* select { <-ctx.Done() / <-time.After(pollInterval) }: the timer.
AudioSleepCtxTimer ==
    /\ aPc = "sleepCtx"
    /\ aPc' = "top"
    /\ aAttempt' = aAttempt + 1
    /\ UNCHANGED <<aMax, aCtxDone, aLast, aResult>>
    /\ UNCHANGED <<clientVars, waitVars, batchVars, pollVars, typedVars>>

\* The same select: ctx is done.
AudioSleepCtxCancel ==
    /\ aPc = "sleepCtx"
    /\ aCtxDone
    /\ aPc' = "done"
    /\ aResult' = "ctxErr"
    /\ UNCHANGED <<aAttempt, aMax, aCtxDone, aLast>>
    /\ UNCHANGED <<clientVars, waitVars, batchVars, pollVars, typedVars>>

\* The caller cancels ctx, or its deadline passes.
AudioCancel ==
    /\ aPc \notin {"idle", "done"}
    /\ ~aCtxDone
    /\ aCtxDone' = TRUE
    /\ UNCHANGED <<aPc, aAttempt, aMax, aLast, aResult>>
    /\ UNCHANGED <<clientVars, waitVars, batchVars, pollVars, typedVars>>

NextAudioPoll ==
    \/ \E m \in 0..MaxAttempts : AudioPollBegin(m)
    \/ AudioPollTop
    \/ \E e \in {"TimeoutError", "DeadlineExceeded", "otherError"} : AudioFetchErr(e)
    \/ \E item \in Items : AudioFetchEnd(item)
    \/ AudioSleepEnd
    \/ AudioSleepCtxTimer
    \/ AudioSleepCtxCancel
    \/ AudioCancel

SpecAudioPoll == Init /\ [][NextAudioPoll]_vars

NextTyped ==
    \/ \E m \in Methods, n \in 1..MaxExpected : TypedBegin(m, n)
    \/ \E item \in Items : TypedDeliver(item)
    \/ TypedRecv
    \/ \E e \in {"TimeoutError", "ctxErr", "APIError"} : TypedFail(e)
    \/ TypedReturn

SpecTyped == Init /\ [][NextTyped]_vars

\* ---------------------------------------------------------- properties

\* C1: an inbound success item with identifier X makes the router invoke
\* only the callback registered under X, never one registered under another
\* identifier; with nothing registered under X the item is dropped, no
\* callback is invoked and the registry is unchanged.
C1_RoutedByIdentifier ==
    [][/\ \A g \in Gens :
             procCall'[g].h # 0 => reqId'[procCall'[g].h] = procCall'[g].id
       /\ (messageChan # <<>> /\ messageChan' = Tail(messageChan)
              /\ Head(messageChan).shape = "data") =>
            LET f == Head(messageChan) IN
            IF handlers[f.id] = 0
            THEN UNCHANGED <<procCall, handlers, hCount, cbErr, errChan, respLen>>
            ELSE \E g \in Gens :
                    /\ procCall[g] = NoCall
                    /\ procCall'[g] =
                          [h |-> handlers[f.id], id |-> f.id,
                           data |-> parseResponseByType(f.tt), err |-> NoErr]
                    /\ \A k \in Gens \ {g} : procCall'[k] = procCall[k]
       /\ \A r \in Reqs :
             (hCount'[r] # hCount[r] \/ cbErr'[r] # cbErr[r]) =>
                \E g \in Gens : /\ procPc[g] = "invoke"
                                /\ procCall[g].h = r
                                /\ procCall[g].id = reqId[r]
      ]_vars

\* Two callbacks are registered under different identifiers and the router
\* is about to invoke one of them with a result.
C1_Witness ==
    /\ handlers[1] # 0
    /\ handlers[2] # 0
    /\ handlers[1] # handlers[2]
    /\ \E g \in Gens : procPc[g] = "invoke" /\ procCall[g].err = NoErr

\* C2: a request with expected-count 1 sees exactly one callback invocation
\* (a result or an error): none is missing when its call has returned a
\* result, an error or a timeout, and there is never more than one.
C2_ExactlyOneInvocation ==
    \A r \in Reqs :
        reqN[r] = 1 =>
            /\ hCount[r] + cbErr[r] <= 1
            /\ (reqPc[r] = "done" /\ outcome[r].kind \in {"ok", "error", "timeout"}) =>
                   hCount[r] + cbErr[r] = 1

\* C3: once the callback of a request with expected-count 1 and identifier X
\* has been invoked with the reply, the registry no longer holds X and no
\* later item echoing X reaches the callback: no loop is left about to
\* invoke it and it is not invoked a second time.
C3_DeliveredOnceThenDropped ==
    \A r \in Reqs :
        (reqN[r] = 1 /\ hCount[r] >= 1) =>
            /\ hCount[r] = 1
            /\ handlers[reqId[r]] # r
            /\ \A g \in Gens : procCall[g].h # r

\* C4: the waiter of a request with expected-count N > 1 returns success only
\* when its callback has been handed exactly N results.
C4_SuccessAfterAllResults ==
    [][\A r \in Reqs :
          (reqN[r] > 1 /\ outcome[r].kind # "ok" /\ outcome'[r].kind = "ok") =>
              hCount[r] = reqN[r] /\ hCount'[r] = reqN[r]
      ]_vars

\* A request that asked for more than one result has returned success.
C4_Witness == \E r \in Reqs : reqN[r] > 1 /\ outcome[r].kind = "ok"

\* C5: for expected-count N > 1 a reported timeout carries a receivedCount
\* below N, and the waiter's receivedCount never exceeds N.
C5_ReceivedCountBounded ==
    \A r \in Reqs :
        reqN[r] > 1 =>
            /\ wCount[r] <= reqN[r]
            /\ outcome[r].kind = "timeout" => outcome[r].received < reqN[r]

\* C6: when the router takes a frame of the service error shape whose
\* identifier has a registered callback, it goes on to invoke that callback
\* with an error (after which the entry is removed).
C6_ErrorFrameReachesCallback ==
    [][(messageChan # <<>> /\ messageChan' = Tail(messageChan)
           /\ Head(messageChan).shape = "error"
           /\ handlers[Head(messageChan).id] # 0) =>
          \E g \in Gens : /\ procPc'[g] = "invoke"
                          /\ procCall'[g].h = handlers[Head(messageChan).id]
                          /\ procCall'[g].err # NoErr
      ]_vars

\* C7: the error the router hands to a callback is the typed API error and
\* carries the service's code and the correlation identifier.
C7_TypedApiError ==
    \A g \in Gens :
        procCall[g].err # NoErr =>
            /\ procCall[g].err.kind = "APIError"
            /\ procCall[g].err.code \in ErrorCodes
            /\ procCall[g].err.taskUUID = procCall[g].id

\* C8: of two Disconnect calls in succession neither returns an error, and
\* the second takes the not-connected return, which changes nothing.
C8_DisconnectTwice ==
    [][/\ lastOp'.op = "disconnect" => ~lastOp'.err
       /\ (userPc = "idle" /\ lastOp.op = "disconnect") =>
             /\ userPc' # "discWait"
             /\ lastOp'.op = "disconnect" =>
                   UNCHANGED <<connected, conn, sock, stopped, handlers>>
      ]_vars

\* C9: from the return of Disconnect until the application's next Connect
\* the client is not connected, the loops that were started have their stop
\* signal and no Reconnect Supervisor is about to run the connect sequence.
C9_StaysDisconnected ==
    (userPc = "idle" /\ lastOp.op = "disconnect") =>
        /\ ~IsConnected
        /\ (\E g \in Gens : procPc[g] # "none") => stopped
        /\ \A g \in Gens : recPc[g] # "connect"

\* C10: a request in flight when Disconnect is called does not return
\* success.
C10_InFlightGetsError ==
    \A r \in atDisc : reqPc[r] = "done" => outcome[r].kind # "ok"

\* C11: with auto-reconnect enabled and no Disconnect, once a connection
\* loss has been detected the client is never stranded: it has a live
\* connection, or a reconnect attempt is pending (a signal in reconnectChan
\* or a supervisor sleeping or connecting), or a loop that detects the loss
\* and signals it is still running.
C11_NeverStranded ==
    (autoReconnect /\ ~stopped /\ \E g \in Gens : readPc[g] = "exit") =>
        \/ conn # 0 /\ sock[conn] = "open"
        \/ reconnectChan = 1
        \/ \E g \in Gens : recPc[g] \in {"sleep", "connect"}
        \/ \E g \in Gens : readPc[g] = "reading" \/ pingPc[g] = "run"

\* 2^n.
RECURSIVE Pow2(_)
Pow2(n) == IF n = 0 THEN 1 ELSE 2 * Pow2(n - 1)

\* C12: after N consecutive failed reconnect attempts the delay a
\* supervisor sleeps before the next attempt is min(initial * 2^N, max), and
\* after a successful reconnect (N = 0) it is the initial delay again.
C12_BackoffDelay ==
    [][\A g \in Gens :
          (recPc[g] = "idle" /\ recPc'[g] = "sleep") =>
              delay[g] = Min(ReconnectDelay * Pow2(fails), MaxReconnectDelay)
      ]_vars

\* C13: a Send that returns the NotConnected error has left no handler of
\* its request in the registry.
C13_NotConnectedRegistersNothing ==
    \A r \in Reqs :
        (reqPc[r] = "done" /\ outcome[r].kind = "notConnected") =>
            handlers[reqId[r]] # r

\* C14: Send never writes a request frame without a non-empty taskUUID and
\* never registers a handler under the empty taskUUID: a request lacking one
\* ends with an error, nothing registered and nothing written for it.
C14_EmptyIdRejected ==
    /\ handlers[0] = 0
    /\ \A r \in Reqs :
          reqId[r] = 0 =>
              /\ reqPc[r] \in {"idle", "done"}
              /\ outcome[r].kind \in {"none", "notConnected", "missingTaskUUID"}

\* A request without taskUUID was refused by a connected client while the
\* registry held an earlier request's handler.
C14_Witness ==
    \E r \in Reqs :
        /\ reqPc[r] = "done"
        /\ reqId[r] = 0
        /\ outcome[r].kind = "missingTaskUUID"
        /\ \E i \in Ids : handlers[i] # 0

\* C15: on every socket the client establishes, the first frame a write is
\* attempted for is the authentication frame: never a request, a ping or a
\* close frame.
C15_AuthFirst ==
    \A s \in Gens : firstWrite[s] \in {"none", "auth", "authFailed"}

\* A request was written to the client's second socket, after that socket's
\* authentication frame.
C15_Witness ==
    /\ conn = 2
    /\ firstWrite[2] = "auth"
    /\ reqPc[1] = "waiting"
    /\ \E g \in Gens : recPc[g] = "idle" /\ fails = 0 /\ readPc[2] = "reading"

\* C16: a Connect whose authentication write fails returns an error (to the
\* application, or to the reconnectLoop that doubles its delay), leaves the
\* socket closed and the client disconnected; and whenever the client is
\* connected on a socket, that socket's authentication frame was written.
C16_NoPartialAuth ==
    [][/\ \A s \in Gens :
             (firstWrite[s] = "none" /\ firstWrite'[s] = "authFailed") =>
                 /\ sock'[s] = "closed"
                 /\ ~connected'
                 /\ recPc' = recPc => (lastOp'.op = "connect" /\ lastOp'.err)
                 /\ recPc' # recPc =>
                        \E g \in Gens : /\ recPc[g] = "connect"
                                        /\ delay'[g] = NextDelay(delay[g])
       /\ (connected' /\ conn' # 0) => firstWrite'[conn'] = "auth"
      ]_vars

\* The authentication write failed on the client's second socket while a
\* request was waiting to be written.
C16_Witness ==
    /\ firstWrite[2] = "authFailed"
    /\ firstWrite[1] = "auth"
    /\ reqPc[1] = "registered"
    /\ ~connected

\* C17: a reported timeout comes after the smaller of the request timeout
\* and the time left until the context's deadline, for every combination
\* of the two, and the waiter never waits past the deadline.
C17_EffectiveTimeout ==
    /\ (wPc = "done" /\ wResult = "timeout") =>
           now = (IF deadline = NoDeadline THEN requestTimeout
                  ELSE Min(requestTimeout, deadline))
    /\ (wPc # "idle" /\ deadline # NoDeadline) => now <= deadline

\* C18: processBatch returns its results in input order: whatever the order
\* in which the handler invocations complete, position i of the returned
\* slice holds the result of item i.
C18_InputOrder ==
    (bPc = "done" /\ bN > 0) =>
        /\ DOMAIN responses = 0..(bN - 1)
        /\ \A i \in 0..(bN - 1) : i \notin failing => responses[i] = Payload(i)

\* A batch of three returned although item 0 completed last.
C18_Witness ==
    /\ bPc = "done"
    /\ bN = 3
    /\ failing = {}
    /\ results = <<2, 1, 0>>

C22_SuccessAfterKPolls ==
    \A k \in 1..MaxAttempts :
        (/\ pPc = "done"
         /\ Len(history) = k
         /\ history[k] = "success"
         /\ \A j \in 1..(k - 1) : history[j] = "processing") =>
            /\ pResult = "success"
            /\ polls = k

\* [processing, processing, success] was returned as success.
C22_Witness ==
    /\ pPc = "done"
    /\ history = <<"processing", "processing", "success">>
    /\ pResult = "success"
    /\ polls = 3

\* C23: the poller issues at most maxAttempts status fetches, and a budget
\* used up without a terminal status (and without a cancellation) ends in
\* the "polling exhausted" error, which IsTimeout does not accept.
C23_PollingExhausted ==
    /\ polls <= maxAttempts
    /\ (/\ pPc = "done"
        /\ ~ctxDone
        /\ \A j \in 1..Len(history) :
               history[j] \in {"processing", "empty", "unknown",
                               "TimeoutError", "DeadlineExceeded"}) =>
           /\ polls = maxAttempts
           /\ pResult = "pollingExhausted"
           /\ ~IsTimeout(pResult)

\* A budget of three was used up by in-progress statuses and a timeout.
C23_Witness ==
    /\ pPc = "done"
    /\ maxAttempts = 3
    /\ history = <<"processing", "TimeoutError", "processing">>
    /\ pResult = "pollingExhausted"

\* C24: after a poll-level timeout the poller sleeps one interval and goes
\* on with the next attempt; any other error of a fetch is returned at
\* once; an error status ends the polling with an error; and nothing is
\* fetched after the return.
C24_PollErrors ==
    [][/\ (pPc = "fetch" /\ pPc' # "fetch") =>
             LET out == history'[Len(history')] IN
             /\ out \in {"TimeoutError", "DeadlineExceeded"} => pPc' = "sleep"
             /\ out = "otherError" => (pPc' = "done" /\ pResult' = "otherError")
             /\ out = "error" => (pPc' = "done" /\ pResult' = "generationFailed")
       /\ (pPc = "sleep" /\ pPc' # "sleep") => (pPc' = "top" /\ attempt' = attempt + 1)
       /\ pPc = "done" => polls' = polls
      ]_vars

\* A poll timed out and the next poll was issued.
C24_Witness ==
    /\ pPc = "fetch"
    /\ history = <<"TimeoutError">>
    /\ polls = 2

\* C25: once the caller's context is cancelled no further status fetch is
\* issued, and the poller returns the context's cancellation error.
C25_CancelEndsPolling ==
    [][/\ ctxDone => polls' = polls
       /\ (pPc' = "done" /\ ctxDone') => pResult' = "ctxErr"
      ]_vars

\* C26: every write to the socket is performed while holding writeMu, so
\* no two writes to the same socket are ever in progress at once.
C26_WritesSerialized ==
    /\ \A w \in writing : writeMu = [by |-> w.by, who |-> w.who]
    /\ \A w1, w2 \in writing : w1.sock = w2.sock => w1 = w2

\* C27: at most one message-processing loop runs for a client at any time,
\* across reconnects, so no two deliveries for the same taskUUID are in
\* progress at once.
C27_SingleProcessingLoop ==
    /\ Cardinality({g \in Gens : procPc[g] \notin {"none", "exit"}}) <= 1
    /\ \A g1, g2 \in Gens :
          (procCall[g1].h # 0 /\ procCall[g2].h # 0 /\ procCall[g1].id = procCall[g2].id)
              => g1 = g2

\* C28: Send registers the callback before it writes the request frame: a
\* request is written only after its registration step, and at the write
\* the registry holds a callback under its taskUUID (its own, unless
\* another request with the same taskUUID has registered since).
C28_RegisteredBeforeWrite ==
    [][\A r \in Reqs :
          /\ (reqPc[r] = "idle" /\ reqPc'[r] # "idle") =>
                 \/ reqPc'[r] = "registered" /\ handlers'[reqId'[r]] = r
                 \/ reqPc'[r] = "done" /\ outcome'[r].kind \in {"notConnected", "missingTaskUUID"}
          /\ (reqPc[r] = "registered" /\ reqPc'[r] # "registered" /\ conn # 0) =>
                 \/ handlers[reqId[r]] = r
                 \/ \E q \in Reqs \ {r} : reqId[q] = reqId[r] /\ reqPc[q] # "idle"
      ]_vars

\* A request was written with its callback in the registry and its reply
\* has been routed to that callback.
C28_Witness ==
    \E r \in Reqs :
        /\ reqPc[r] = "waiting"
        /\ handlers[reqId[r]] = r
        /\ hCount[r] = 1
        /\ reqN[r] = 2

\* C29: Send never replaces a live registry entry: when Send registers a
\* callback under a taskUUID while no other request is in progress (as in
\* the successive status fetches of the poller, all under the polled
\* task's taskUUID), the registry holds no callback under that taskUUID.
C29_NoLiveEntryReplaced ==
    [][\A r \in Reqs :
          (/\ reqPc[r] = "idle"
           /\ reqPc'[r] = "registered"
           /\ \A q \in Reqs \ {r} : reqPc[q] \in {"idle", "done"}) =>
              handlers[reqId'[r]] = 0
      ]_vars

\* C30: a failed Send keeps its registration: when the write fails Send
\* returns the error and the registry still holds the callback; a registry
\* entry disappears only in a step of the delivery path (the callback's
\* final result or a service error), never with a failed write, a waiter
\* timeout or a cancellation.
C30_NoRollback ==
    [][/\ \A i \in Keys :
             (handlers[i] # 0 /\ handlers'[i] = 0) =>
                 \E g \in Gens : /\ procPc[g] = "invoke"
                                 /\ procPc'[g] = "idle"
                                 /\ procCall[g].id = i
       /\ \A r \in Reqs :
             (/\ reqPc[r] \in {"registered", "waiting"}
              /\ reqPc'[r] = "done"
              /\ outcome'[r].kind \in {"notConnected", "sendFailed", "timeout", "cancelled"}) =>
                 /\ handlers' = handlers
                 /\ outcome'[r].kind = "sendFailed" => handlers'[reqId[r]] = r
      ]_vars

\* The write of a registered request failed on a broken socket and its
\* callback is still in the registry.
C30_Witness ==
    /\ reqPc[1] = "done"
    /\ outcome[1].kind = "sendFailed"
    /\ handlers[reqId[1]] = 1

\* C31: registry entries do not outlive their connection: once a Disconnect
\* has completed, and once a connection loss has been detected and the
\* client marked disconnected, the registry is empty.
C31_RegistryClearedOnTeardown ==
    /\ (userPc = "idle" /\ lastOp.op = "disconnect" /\ ~lastOp.noop) =>
           \A i \in Keys : handlers[i] = 0
    /\ (~connected /\ ~stopped /\ \A g \in Gens : readPc[g] \in {"none", "exit"}) =>
           \A i \in Keys : handlers[i] = 0

\* C32: once Disconnect has marked the client disconnected, no Send writes
\* a frame to the socket.
C32_NoWriteAfterMark ==
    [][\A r \in Reqs :
          (reqPc[r] = "registered" /\ reqPc'[r] # "registered" /\ conn # 0) =>
              userPc # "discWait"
      ]_vars

C34_ReconnectOutlivesContext ==
    [][\A g \in Gens :
          (recPc[g] = "connect" /\ recPc'[g] = "idle" /\ ~connected) =>
              (connected' /\ nConnects' = nConnects + 1)
      ]_vars

\* C35: a typed request method never crashes: whatever results were
\* delivered to its callback, it returns an error or a response of its own
\* type.
C35_TypedMethodNeverCrashes ==
    tPc = "done" =>
        /\ tOut # "panic"
        /\ tOut = "response" => tFirst.type = OwnType(tMethod)

\* C36: a status fetch answered by a well-formed item of kind
\* audioInference or getResponse whose status is success ends audio
\* polling with the success payload.
C36_AudioSuccessEndsPolling ==
    [][(/\ aPc = "fetch"
        /\ aPc' # "fetch"
        /\ aLast'.taskType \in {"audioInference", "getResponse"}
        /\ aLast'.status = "success"
        /\ aLast'.decodes /\ aLast'.decodesAudio /\ aLast'.audio /\ ~aLast'.video)
       => (aPc' = "done" /\ aResult' = "success")
      ]_vars

\* C37: whenever the state is Connected the client holds a socket:
\* connected implies conn is not nil.
C37_ConnectedHasSocket == connected => conn # 0

\* C38: the stop signal, once raised, stays raised; a read loop started by
\* a Connect after it exits without reading, so every frame read after a
\* Disconnect is read by a loop started before it, and a connection
\* established after a Disconnect delivers nothing.
C38_StopSignalIsFinal ==
    [][/\ stopped => stopped'
       /\ \A g \in Gens :
             /\ (stopped /\ readPc[g] = "none") => readPc'[g] \in {"none", "exit"}
             /\ readPc[g] = "exit" => readPc'[g] = "exit"
       /\ nFrames' # nFrames =>
             \E g \in Gens : readPc[g] = "reading" /\ sock[g] = "open"
      ]_vars

\* A request sent on a connection established after a Disconnect has
\* timed out: the connection is up, its read loop has exited, no frame
\* was ever read.
C38_Witness ==
    /\ stopped
    /\ connected
    /\ conn = 2
    /\ sock[2] = "open"
    /\ readPc[2] = "exit"
    /\ nFrames = 0
    /\ reqPc[1] = "done"
    /\ outcome[1].kind = "timeout"

\* C39: a request's callback never sends on its result channel after
\* closing it and never sends more than expected-count results.
C39_NoSendAfterClose ==
    /\ ~panicked
    /\ \A r \in Reqs : hCount[r] <= reqN[r] /\ respLen[r] <= reqN[r]

\* C40: processBatch terminates when every handler invocation terminates,
\* and it returns only after all N invocations have completed.
C40_BatchTerminates ==
    /\ (bPc = "running") ~> (bPc = "done")
    /\ [](bPc = "done" /\ bN > 0 =>
             launched = bN /\ running = {} /\ Len(results) = bN)

\* A batch larger than the semaphore has returned: the launching loop
\* had to wait for a slot.
C40_Witness ==
    /\ bPc = "done"
    /\ bN > MinParallel
    /\ Len(results) = bN

====
